---- MODULE Spec2Model ----
(***************************************************************************)
(* A model of the RoboUber taxi world: the junctions (node.py), the        *)
(* network that owns them and steps the clock (networld.py), the fares     *)
(* (fare.py) and the dispatcher (dispatcher.py).                           *)
(*                                                                         *)
(* The taxis themselves are not part of the sources: they are the          *)
(* environment.  While the world drives them (the taxi phase of a tick)    *)
(* an on-duty taxi may make any call of the public interface of Node and   *)
(* NetWorld, in any order, with any argument of the bounded input sets.    *)
(***************************************************************************)
EXTENDS Integers, FiniteSets, Sequences, TLC

\* ------------------------------------------------------------------------
\* Bounds of the model
\* ------------------------------------------------------------------------
MaxTime == 2       \* ticks of runWorld that are explored
MaxCalls == 6      \* calls the taxis make in one behaviour
NumTaxis == 2      \* taxi objects that exist
TrafficCap == 2    \* junctionDef.maxTraffic of every junction
MaxSrc == 2        \* junctionDef.src of a junction with intrinsic inflow
MaxSink == 1       \* junctionDef.sink of a junction with intrinsic outflow
MaxGamma == 2      \* largest draw of 5*gamma(2,1) in insertFare
MaxFares == 2      \* Fare objects created in one behaviour
MaxFlowTime == 4   \* ticks explored of a world that has traffic and no taxi
MaxFairTime == 3   \* ticks explored of a world whose taxis queue at a junction
MaxFairCalls == 4  \* calls the taxis make in that world
MaxRounds == 2     \* successive clockTicks of a junction that are counted
QuietSrc == 2      \* junctionDef.src and .sink of (0,0) in a busy world
BusySrc == 6       \* junctionDef.src and .sink of (1,0) in a busy world
MaxFareTime == 3   \* ticks explored of a world whose taxi carries a fare
MaxFareCalls == 7  \* calls the taxi makes in that world
MaxWaitTime == 14  \* ticks explored of a world whose fares wait to the end
MaxWaitCalls == 4  \* calls the taxi makes in that world
MaxCallTime == 1   \* last tick at which a fare calls in that world
MaxAccount == 1    \* largest balance of a taxi's account
MaxBidTime == 3    \* ticks explored of a world whose two taxis bid
MaxBidCalls == 6   \* calls the taxis make in that world
MaxPriceTime == 3  \* ticks explored of a world whose fares are priced
MaxDwellTime == 3  \* ticks explored of a world whose traffic rises while a taxi waits
MaxDwellCalls == 4 \* calls the taxi makes in that world
MaxRejectTime == 3 \* ticks explored of a world whose fares reject their price
MaxRejectCalls == 4 \* calls the taxi makes in that world
MaxShiftTime == 2  \* ticks explored of a world whose taxis bid and end their shift
MaxShiftCalls == 6 \* calls the taxis make in that world

\* ------------------------------------------------------------------------
\* The network built by the constructor: two junctions (0,0) and (1,0)
\* joined by one bidirectional street, in a grid of xSize by ySize.
\* ------------------------------------------------------------------------
xSize == 2
ySize == 1
NoNode == 0        \* None where a Node is expected
NoDir == -1        \* the direction of the sentinel (None, -1)
NoTaxi == 0        \* None where a taxi is expected

Nodes == {1, 2}
Taxis == 1..NumTaxis
Dirs == 0..7       \* N, NE, E, SE, S, SW, W, NW

\* Node._idx
index(n) == IF n = 1 THEN <<0, 0>> ELSE <<1, 0>>

\* Node._neighbours after addEdges([streetDef((0,0), (1,0), 2, 6)]).
neighbours(n, d) ==
    IF n = 1 /\ d = 2 THEN 2
    ELSE IF n = 2 /\ d = 6 THEN 1
    ELSE NoNode

\* Node._capacity (junctionDef.capacity)
capacity(n) == IF n = 1 THEN 1 ELSE 2


NoPose == <<NoNode, NoDir>>
NoOcc == [taxi |-> NoTaxi, t |-> 0]
NoEntry == [in |-> FALSE, here |-> NoPose, adm |-> NoPose]

VARIABLES
    time,        \* NetWorld._time
    phase,       \* where runWorld is in the tick: "nodes", "taxis", "dispatcher", "traffic"
    nextNode,    \* in the node phase, the junction whose clockTick is next
    traffic,     \* Node._traffic of every junction
    trafficSrc,  \* Node._trafficSrc
    trafficSink, \* Node._trafficSink (minus the junctionDef's sink)
    trafficQ,    \* NetWorld._trafficQ (0: no entry)
    light,       \* Node._traffic_light
    occupied,    \* Node._occupied: direction -> (taxi, time admitted)
    incoming,    \* Node._incoming: direction -> taxi
    taxis,       \* NetWorld._taxis: taxi -> [current pose, admission pose]
    onDuty,      \* the taxis' onDuty property
    heading,     \* per taxi, the (node, direction) its last addTaxi or turn returned
    fare,        \* Node._fare: the fare waiting at the junction (0: None)
    fareQ,       \* NetWorld._fareQ: origin -> fare (0: no entry)
    fares,       \* the Fare objects created so far, in order of creation
    fareGen,     \* whether the junction's fare_probability can return True
    crashed,     \* an exception has left runWorld
    calls,       \* calls made by the taxis so far
    last,        \* the last call made by a taxi, and what it returned
    runTime,     \* NetWorld.runTime: the tick at which runWorld stops
    trafficCap,  \* junctionDef.maxTraffic (traffic_cap) of every junction
    notified,    \* the last clockTick: its junction, and the dict it gave admitTaxi
    rounds,      \* per junction, the successive clockTicks that had fewer free
                 \* slots than requests, since its requests last changed
    grants,      \* per junction and taxi, how many of those clockTicks granted it
    dispatcher,  \* NetWorld._dispatcher is not None
    fleet,       \* the taxi objects that exist
    budget,      \* the calls the taxis make in one behaviour
    fareTicks,   \* the ticks at which a fare_probability can return True
    account,     \* the taxis' _account, as the dispatcher reads it
    stopAllowed, \* Node._canStop (junctionDef.canStop) of every junction
    fareSure,    \* the fare_probability returns True at every tick it can
    gammas,      \* the draws of 5*gamma(2,1) insertFare can make
    dispatcherTaxis, \* Dispatcher._taxis, a list
    fareBoard,   \* Dispatcher._fareBoard: the FareEntry of every fare (on: present)
    revenue,     \* Dispatcher._revenue, in ninetieths of a unit of currency
    inbox,       \* per taxi, the messages recvMsg was given in this tick
    carrying     \* per taxi, the fare pickupFare returned to it (0: None)

vars == <<time, phase, nextNode, traffic, trafficSrc, trafficSink, trafficQ, light,
          occupied, incoming, taxis, onDuty, heading, fare, fareQ, fares,
          fareGen, crashed, calls, last, runTime, trafficCap, notified, rounds,
          grants, dispatcher, fleet, budget, fareTicks, account, stopAllowed,
          fareSure, gammas, dispatcherTaxis, fareBoard, revenue, inbox, carrying>>

\* What the construction of the world fixes
setup == <<runTime, trafficCap, dispatcher, fleet, budget, fareTicks, account,
           stopAllowed, fareSure, gammas>>

\* What the dispatcher and the taxis hold of the fares
dispatch == <<dispatcherTaxis, fareBoard, revenue, inbox, carrying>>

\* ------------------------------------------------------------------------
\* Helpers
\* ------------------------------------------------------------------------
\* Node._trafficMax: traffic_cap, or 8 when it was given as 0.
trafficMax(n) == IF trafficCap[n] = 0 THEN 8 ELSE trafficCap[n]

\* len() of a dict kept as a function with an "absent" value
occupiedDirs(occ) == {d \in Dirs : occ[d].taxi # NoTaxi}
incomingDirs(inc) == {d \in Dirs : inc[d] # NoTaxi}

\* Python's round(k/2): halves go to the even neighbour.
roundHalf(k) ==
    LET m == k \div 2
    IN  IF k % 2 = 0 THEN m
        ELSE IF m % 2 = 0 THEN m ELSE m + 1

\* NetWorld.distance2Node. Every junction of this grid has y = 0, so the
\* square root of dx^2 + dy^2 is |dx|.
distance2Node(origin, destination) ==
    IF origin = NoNode \/ destination = NoNode THEN -1
    ELSE LET dx == index(destination)[1] - index(origin)[1]
         IN  IF dx < 0 THEN -dx ELSE dx

\* travelTime that lets a taxi from outside into any junction at once
travelTimeFromOutsideFree(origin, destination) ==
    IF destination = NoNode THEN 0
    ELSE IF origin = NoNode THEN 0
    ELSE IF traffic[origin] = trafficMax(origin)
            \/ traffic[destination] = trafficMax(destination)
         THEN -1
    ELSE roundHalf(traffic[origin] + traffic[destination]
                   + distance2Node(origin, destination))

\* NetWorld.travelTime
travelTime(origin, destination) ==
    IF destination = NoNode THEN 0
    ELSE IF origin = NoNode
         THEN (IF traffic[destination] = trafficMax(destination) THEN -1 ELSE 0)
    ELSE IF traffic[origin] = trafficMax(origin)
            \/ traffic[destination] = trafficMax(destination)
         THEN -1
    ELSE roundHalf(traffic[origin] + traffic[destination]
                   + distance2Node(origin, destination))

\* injectTraffic that adds the volume and never clamps
injectTrafficNoClamp(tr, max, volume) == [t |-> tr + volume, r |-> volume]

\* Node.injectTraffic on a junction holding tr with ceiling max:
\* the new volume (t) and the returned amount accepted (r).
injectTraffic(tr, max, volume) ==
    IF tr > max THEN [t |-> tr, r |-> 0]
    ELSE IF tr + volume > max
         THEN [t |-> max, r |-> volume - ((tr + volume) - max)]
    ELSE [t |-> tr + volume, r |-> volume]

\* NetWorld.addTraffic
addTraffic(q, n) == [q EXCEPT ![n] = @ + 1]

\* Node.clockTick, the flow loop over the neighbours from direction d on:
\* tr is this junction's volume, q the traffic queue.
RECURSIVE flowTraffic(_, _, _, _)
flowTraffic(n, d, tr, q) ==
    IF d > 7 THEN [t |-> tr, q |-> q]
    ELSE LET nb == neighbours(n, d)
         IN  IF nb # NoNode /\ traffic[nb] < trafficMax(nb) /\ tr > 0
             THEN flowTraffic(n, d + 1,
                              injectTraffic(tr - 1, trafficMax(n), trafficSink[n]).t,
                              addTraffic(q, nb))
             ELSE flowTraffic(n, d + 1, tr, q)

\* A clockTick that removes no occupant
purgeNone(occ) == occ

\* Node.clockTick, removal of the occupants that are off duty
purgeOffDuty(occ) ==
    [d \in Dirs |-> IF occ[d].taxi # NoTaxi /\ ~onDuty[occ[d].taxi] THEN NoOcc ELSE occ[d]]

\* The admitted dict of clockTick, kept as the sequence of its (direction,
\* taxi) items in insertion order.
admittedHas(adm, d) == \E i \in DOMAIN adm : adm[i][1] = d
admittedPut(adm, d, t) ==
    IF admittedHas(adm, d)
    THEN [i \in DOMAIN adm |-> IF adm[i][1] = d THEN <<d, t>> ELSE adm[i]]
    ELSE Append(adm, <<d, t>>)

\* Node.clockTick, the inner while: spin the traffic light.
RECURSIVE spinLight(_, _, _)
spinLight(l, inc, adm) ==
    IF inc[l] = NoTaxi /\ ~admittedHas(adm, l)
    THEN spinLight((l + 1) % 8, inc, adm)
    ELSE l

\* Node.clockTick, the outer while: the admitted dict and the light it ends on.
RECURSIVE grantLoop(_, _, _, _)
grantLoop(remaining, adm, l, inc) ==
    IF remaining > 0 /\ Len(adm) < Cardinality(incomingDirs(inc))
    THEN LET l2 == spinLight(l, inc, adm)
         IN  grantLoop(remaining - 1, admittedPut(adm, l2, inc[l2]), l2, inc)
    ELSE [adm |-> adm, light |-> l]

\* NetWorld.admitTaxi, one item of the admission list
admitOne(reg, n, d, t) ==
    LET a1 == IF ~onDuty[t] THEN NoPose ELSE reg[t].adm
        a2 == IF a1 = NoPose THEN <<n, d>> ELSE a1
        a3 == IF a2[1] # n THEN NoPose ELSE a2
    IN  [reg EXCEPT ![t].adm = a3]

\* NetWorld.admitTaxi from item i on: the registry, and whether the
\* ValueError for an unknown taxi was raised.
RECURSIVE admitTaxi(_, _, _, _)
admitTaxi(reg, n, adm, i) ==
    IF i > Len(adm) THEN [reg |-> reg, raised |-> FALSE]
    ELSE IF ~reg[adm[i][2]].in THEN [reg |-> reg, raised |-> TRUE]
    ELSE admitTaxi(admitOne(reg, n, adm[i][1], adm[i][2]), n, adm, i + 1)

\* NetWorld.clearAdmission
clearAdmission(reg, n, t) ==
    IF reg[t].in /\ reg[t].adm[1] = n
    THEN [reg EXCEPT ![t] = [in |-> TRUE, here |-> reg[t].adm, adm |-> NoPose]]
    ELSE reg

\* ------------------------------------------------------------------------
\* Fares
\* ------------------------------------------------------------------------
NoFare == 0

\* A junction where taxis may stop whatever its junctionDef says
canStopAnywhere(n) == TRUE

\* Node.canStop
canStop(n) == stopAllowed[n]

\* Fare.__init__
newFare(origin, destination, callTime, waitTime) ==
    [origin |-> origin, destination |-> destination, callTime |-> callTime,
     waitTime |-> waitTime, taxi |-> NoTaxi, enroute |-> FALSE, price |-> 0,
     parent |-> TRUE, ended |-> ""]

\* A setPrice that compares the price with the travel time itself
setPriceNoFactor(f, price) ==
    LET expectedTime2Dest == travelTime(f.origin, f.destination)
    IN  [f EXCEPT !.price = price,
                  !.waitTime = IF expectedTime2Dest < 0 \/ price > 9 * expectedTime2Dest
                               THEN 0 ELSE @]

\* Fare.setPrice. Prices are kept in ninths of a unit of currency, so that
\* (25 + t)/0.9 is the integer 10*(25 + t), and price > 10*t is price > 90*t.
setPrice(f, price) ==
    LET expectedTime2Dest == travelTime(f.origin, f.destination)
    IN  [f EXCEPT !.price = price,
                  !.waitTime = IF expectedTime2Dest < 0 \/ price > 90 * expectedTime2Dest
                               THEN 0 ELSE @]

\* Fare.dropOff, and Fare.clear
dropOff(f) == [f EXCEPT !.enroute = FALSE, !.origin = f.destination]
clear(f) == [f EXCEPT !.parent = FALSE, !.origin = NoNode, !.destination = NoNode,
                      !.taxi = NoTaxi]

\* NetWorld.insertFare: the destinations its loop can end on, and the
\* waits it can draw (distance*10 + 5*gamma, the gamma draw an integer here)
fareDestinations(n) == {m \in Nodes : m # n /\ canStop(m)}
fareWaits(n, m) == {distance2Node(n, m) * 10 + g : g \in gammas}

\* ------------------------------------------------------------------------
\* Dispatcher, and the methods of NetWorld it calls
\* ------------------------------------------------------------------------
\* A fare's key on the fare board is (origin, destination, call time); no two
\* fares share one, so the board is kept per fare.
FareIds == 1..MaxFares

\* No FareEntry under the fare's key
NoFareEntry ==
    [on |-> FALSE, origin |-> NoNode, destination |-> NoNode, calltime |-> 0,
     price |-> 0, taxi |-> -1, bidders |-> <<>>]

\* FareEntry.__init__
FareEntry(origin, dest, t) ==
    [on |-> TRUE, origin |-> origin, destination |-> dest, calltime |-> t,
     price |-> 0, taxi |-> -1, bidders |-> <<>>]

\* Dispatcher.addTaxi
addTaxi(list, t) ==
    IF \E i \in DOMAIN list : list[i] = t THEN list ELSE Append(list, t)

\* taxi in self._taxis, self._taxis.index(taxi) (from 0), and self._taxis[k]
\* for k >= -1 on a list that is not empty
knownTaxi(list, t) == \E i \in DOMAIN list : list[i] = t
taxiIndex(list, t) == (CHOOSE i \in DOMAIN list : list[i] = t) - 1
taxiAt(list, k) == IF k < 0 THEN list[Len(list) + 1 + k] ELSE list[k + 1]

\* Dispatcher.newFare
dispatcherNewFare(board, f, origin, dest, t) ==
    IF dispatcher THEN [board EXCEPT ![f] = FareEntry(origin, dest, t)] ELSE board

\* taxi.recvMsg
message(msg, origin, amount) == [msg |-> msg, origin |-> origin, amount |-> amount]
recvMsg(box, t, m) == [box EXCEPT ![t] = @ \cup {m}]

\* A cancelFare that sends nothing
cancelFareDropped(box, origin, t) == box

\* NetWorld.cancelFare
cancelFare(box, origin, t) ==
    IF ~taxis[t].in THEN box
    ELSE IF onDuty[t] THEN recvMsg(box, t, message("FARE_CANCEL", origin, 0))
    ELSE box

\* Dispatcher.cancelFare for fare f: self._taxis[entry.taxi] raises
\* IndexError on an empty list; otherwise the taxi at that index (the last
\* one for -1) is the one NetWorld.cancelFare is given
cancelRaises(f) == dispatcher /\ fareBoard[f].on /\ dispatcherTaxis = <<>>
dispatcherCancelFare(box, f) ==
    IF dispatcher /\ fareBoard[f].on
    THEN cancelFare(box, fareBoard[f].origin, taxiAt(dispatcherTaxis, fareBoard[f].taxi))
    ELSE box

\* A removeFare that leaves the board as it is
removeFareKeepsEntry(f, enroute) ==
    [inbox |-> IF ~enroute THEN dispatcherCancelFare(inbox, f) ELSE inbox,
     board |-> fareBoard,
     fareQ |-> [fareQ EXCEPT ![fares[f].origin] = NoFare]]

\* A removeFare that tells the dispatcher of every fare that goes
removeFareAlwaysCancels(f, enroute) ==
    [inbox |-> dispatcherCancelFare(inbox, f),
     board |-> IF dispatcher THEN [fareBoard EXCEPT ![f] = NoFareEntry] ELSE fareBoard,
     fareQ |-> [fareQ EXCEPT ![fares[f].origin] = NoFare]]

\* A removeFare that leaves the fare in the fare queue
removeFareKeepsQueue(f, enroute) ==
    [inbox |-> IF ~enroute THEN dispatcherCancelFare(inbox, f) ELSE inbox,
     board |-> IF ~enroute /\ dispatcher THEN [fareBoard EXCEPT ![f] = NoFareEntry]
               ELSE fareBoard,
     fareQ |-> fareQ]

\* NetWorld.removeFare of fare f, whose enroute flag is given: the taxis'
\* messages and the board after Dispatcher.cancelFare, and the fare queue
removeFare(f, enroute) ==
    [inbox |-> IF ~enroute THEN dispatcherCancelFare(inbox, f) ELSE inbox,
     board |-> IF ~enroute /\ dispatcher THEN [fareBoard EXCEPT ![f] = NoFareEntry]
               ELSE fareBoard,
     fareQ |-> [fareQ EXCEPT ![fares[f].origin] = NoFare]]

\* A pickupFare that gives the junction's fare to any occupant
pickupFareAnyTaxi(n, direction) ==
    /\ occupied[n][direction].taxi # NoTaxi
    /\ fare[n] # NoFare

\* Node.pickupFare: the occupant of direction gets the fare
pickupFare(n, direction) ==
    /\ occupied[n][direction].taxi # NoTaxi
    /\ fare[n] # NoFare
    /\ fares[fare[n]].taxi = occupied[n][direction].taxi

\* Fare.pickUp: the fare boards the taxi
pickUp(f, t) == fares[f].taxi = t

\* Node.dropoffFare: the fare alights from the occupant of direction
dropoffFare(n, f, direction) ==
    /\ occupied[n][direction].taxi # NoTaxi
    /\ f # NoFare
    /\ fares[f].destination = n
    /\ occupied[n][direction].t >= time

\* A fareBid that takes the bid on an entry whether it has a taxi or not
fareBidAllocatedOrNot(board, origin, t) ==
    LET open == {f \in FareIds : board[f].on /\ board[f].origin = origin}
    IN  IF ~knownTaxi(dispatcherTaxis, t) \/ open = {} THEN board
        ELSE LET f == CHOOSE g \in open : \A h \in open : g <= h
             IN  [board EXCEPT ![f].bidders = Append(@, taxiIndex(dispatcherTaxis, t))]

\* Dispatcher.fareBid: the first open entry at the origin gets the bid
fareBid(board, origin, t) ==
    LET open == {f \in FareIds : board[f].on /\ board[f].origin = origin
                                             /\ board[f].taxi = -1}
    IN  IF ~knownTaxi(dispatcherTaxis, t) \/ open = {} THEN board
        ELSE LET f == CHOOSE g \in open : \A h \in open : g <= h
             IN  [board EXCEPT ![f].bidders = Append(@, taxiIndex(dispatcherTaxis, t))]

\* Dispatcher._costFare, in ninths
costFare(e) ==
    LET timeToDestination == travelTime(e.origin, e.destination)
    IN  IF timeToDestination < 0 THEN 9 * 150 ELSE 10 * (25 + timeToDestination)

\* NetWorld.broadcastFare. st is what a dispatcher pass changes: the board,
\* the fares, the taxis' messages.
broadcastFare(st, origin, destination, price) ==
    IF fareQ[origin] = NoFare THEN st
    ELSE IF st.fares[fareQ[origin]].destination # destination THEN st
    ELSE [st EXCEPT !.fares[fareQ[origin]] = setPrice(@, price),
                    !.inbox = [t \in Taxis |->
                                  IF taxis[t].in /\ onDuty[t]
                                  THEN @[t] \cup {message("FARE_ADVICE", origin, price)}
                                  ELSE @[t]]]

\* NetWorld.allocateFare
allocateFare(st, origin, t) ==
    IF fareQ[origin] = NoFare \/ ~taxis[t].in \/ ~onDuty[t] THEN st
    ELSE [st EXCEPT !.fares[fareQ[origin]].taxi = t,
                    !.inbox = recvMsg(@, t, message("FARE_ALLOC", origin, 0))]

\* taxi.currentLocation: where the world has the taxi
currentLocation(t) == IF taxis[t].in THEN taxis[t].here ELSE NoPose

\* Dispatcher.calculate_distance: dx + dy + (sqrt(2) - 2) * min(dx, dy). Every
\* junction of this grid has y = 0, so it is dx.
calculate_distance(location1, location2) ==
    LET dx == index(location1)[1] - index(location2)[1]
    IN  IF dx < 0 THEN -dx ELSE dx

\* Dispatcher.calculate_score, times 2000: the weighted distance score
\* 0.4 * (1/(1 + distance))/100 is 8/(1 + distance), a whole number for the
\* distances of this grid; 0.3 * account/100 is 6 * account; 0.3 * passenger_score
\* is 600 * passenger_score.
calculate_score(t, origin) ==
    LET distance == calculate_distance(currentLocation(t)[1], origin)
        passenger_score == IF carrying[t] = NoFare THEN 1 ELSE 0
    IN  (8 \div (1 + distance)) + 6 * account[t] + 600 * passenger_score

\* Dispatcher._allocateFare: fare_count of a taxi, the entries of the board
\* that are allocated to it, and max(fare_count.values()) or 1
fareCount(board, t) ==
    Cardinality({f \in FareIds : /\ board[f].on /\ board[f].taxi >= 0
                                 /\ taxiAt(dispatcherTaxis, board[f].taxi) = t})
maxFareCount(board) ==
    LET counts == {fareCount(board, t) : t \in {t \in Taxis : knownTaxi(dispatcherTaxis, t)}}
        top == CHOOSE c \in counts : \A d \in counts : d <= c
    IN  IF top = 0 THEN 1 ELSE top

\* Dispatcher._allocateFare: adjusted_score, times max(fare_count.values()) or 1:
\* taxi_score * (1 - fare_count[taxi]/max) is taxi_score * (max - fare_count[taxi])
adjustedScore(board, t, origin) ==
    calculate_score(t, origin) * (maxFareCount(board) - fareCount(board, t))

\* Dispatcher._allocateFare: the taxis it scores, and eligible_taxis, the
\* list of them in the order of self._taxis
eligible == {t \in Taxis : knownTaxi(dispatcherTaxis, t) /\ currentLocation(t) # NoPose}
eligibleTaxis == SelectSeq(dispatcherTaxis, LAMBDA t : currentLocation(t) # NoPose)

\* list.sort(key, reverse=True) is stable: an item goes behind the items that
\* have at least its score
RECURSIVE insertByScore(_, _, _)
insertByScore(sorted, t, score) ==
    IF sorted = <<>> THEN <<t>>
    ELSE IF score[Head(sorted)] >= score[t]
         THEN <<Head(sorted)>> \o insertByScore(Tail(sorted), t, score)
    ELSE <<t>> \o sorted

\* A sort by descending score that puts an item before the items of its score
RECURSIVE sortTiesReversed(_, _)
sortTiesReversed(list, score) ==
    IF list = <<>> THEN <<>>
    ELSE LET rest == sortTiesReversed(Tail(list), score)
             later == SelectSeq(rest, LAMBDA u : score[u] >= score[Head(list)])
             earlier == SelectSeq(rest, LAMBDA u : score[u] < score[Head(list)])
         IN  later \o <<Head(list)>> \o earlier

\* Dispatcher._allocateFare: eligible_taxis.sort(key=lambda x: x[1], reverse=True)
RECURSIVE sortByScore(_, _)
sortByScore(list, score) ==
    IF list = <<>> THEN <<>>
    ELSE insertByScore(sortByScore(SubSeq(list, 1, Len(list) - 1), score),
                       list[Len(list)], score)

\* Dispatcher._allocateFare: eligible_taxis[0] of the sorted list (NoTaxi: the
\* list is empty)
winningTaxi(board, origin) ==
    LET score == [t \in Taxis |-> IF t \in eligible THEN adjustedScore(board, t, origin)
                                  ELSE 0]
        ranked == sortByScore(eligibleTaxis, score)
    IN  IF ranked = <<>> THEN NoTaxi ELSE Head(ranked)

\* Dispatcher._allocateFare: the entry is marked with the winning taxi, and
\* the world is told
dispatcherAllocateFare(st, f) ==
    LET winning_taxi == winningTaxi(st.board, st.board[f].origin)
    IN  IF winning_taxi = NoTaxi THEN st
        ELSE allocateFare([st EXCEPT !.board[f].taxi = taxiIndex(dispatcherTaxis, winning_taxi)],
                          st.board[f].origin, winning_taxi)

\* An entry with a bid is given a taxi whether it has one or not
awaitsTaxiAllocatedOrNot(e) == Len(e.bidders) > 0

\* Dispatcher.clockTick: the test of the elif, for a priced entry
awaitsTaxi(e) == e.taxi < 0 /\ Len(e.bidders) > 0

\* Dispatcher.clockTick from entry f on. At most one entry of an origin is
\* unpriced or unallocated, so the order of the entries does not matter.
RECURSIVE dispatcherClockTick(_, _)
dispatcherClockTick(f, st) ==
    IF f > MaxFares THEN st
    ELSE LET e == st.board[f]
         IN  IF ~e.on THEN dispatcherClockTick(f + 1, st)
             ELSE IF e.price = 0
             THEN dispatcherClockTick(f + 1,
                      broadcastFare([st EXCEPT !.board[f].price = costFare(e)],
                                    e.origin, e.destination, costFare(e)))
             ELSE IF awaitsTaxi(e)
             THEN dispatcherClockTick(f + 1, dispatcherAllocateFare(st, f))
             ELSE dispatcherClockTick(f + 1, st)

\* ------------------------------------------------------------------------
\* Node: the calls a taxi makes
\* ------------------------------------------------------------------------
\* The record of a taxi's call: the call, its arguments, what it returned
\* (ret) or raised (exc), and the occupy call it made or led to.
NoCall ==
    [op |-> "none", node |-> NoNode, dir |-> NoDir, out |-> NoDir, taxi |-> NoTaxi,
     exc |-> "", ret |-> NoPose,
     occupy |-> FALSE, onode |-> NoNode, odir |-> NoDir, otaxi |-> NoTaxi,
     origin |-> NoNode, ook |-> FALSE, fare |-> NoFare, done |-> FALSE]

\* NetWorld.addTaxi: the direction a taxi placed at junction n comes in by
\* (NoDir: the junction is not on the boundary of the grid)
ingressPoint(n) ==
    LET x == index(n)[1]
        y == index(n)[2]
    IN  IF x = 0
        THEN (IF y = 0 THEN 7 ELSE IF y = ySize - 1 THEN 5 ELSE 6)
        ELSE IF x = xSize - 1
        THEN (IF y = 0 THEN 1 ELSE IF y = ySize - 1 THEN 3 ELSE 2)
        ELSE IF y = 0 THEN 0
        ELSE IF y = ySize - 1 THEN 4
        ELSE NoDir

\* The directions a taxi can come into junction n by: from outside, or
\* from a neighbour m that n is an exit of (Node.turn: newDirection).
entryDirs(n) ==
    {ingressPoint(n)} \cup
    {(e + 4) % 8 : e \in {e \in Dirs : \E m \in Nodes : neighbours(m, e) = n}}

\* The directions some street leaves a junction by
exitDirs == {e \in Dirs : \E m \in Nodes : neighbours(m, e) # NoNode}

\* Node.indicate
indicate(inc, n, direction, occupant) == [inc EXCEPT ![n][direction] = occupant]

\* abandon that deletes the pending request whoever made it
abandonAny(inc, n, direction, occupant) == [inc EXCEPT ![n][direction] = NoTaxi]

\* Node.abandon where the direction has a pending request
abandon(inc, n, direction, occupant) ==
    IF inc[n][direction] = occupant
    THEN [inc EXCEPT ![n][direction] = NoTaxi]
    ELSE inc

\* occupyFails without the test of the capacity
occupyFailsNoCapacity(n, direction, occupant, time2Occupy) ==
    \/ occupied[n][direction].taxi # NoTaxi
    \/ incoming[n][direction] = NoTaxi
    \/ incoming[n][direction] # occupant
    \/ time2Occupy < 0

\* occupyFails without the test of who asked for the direction
occupyFailsAnyTaxi(n, direction, occupant, time2Occupy) ==
    \/ Cardinality(occupiedDirs(occupied[n])) = capacity(n)
    \/ occupied[n][direction].taxi # NoTaxi
    \/ incoming[n][direction] = NoTaxi
    \/ time2Occupy < 0

\* Node.occupy, the test that makes it fail; time2Occupy is the travel time
occupyFails(n, direction, occupant, time2Occupy) ==
    \/ Cardinality(occupiedDirs(occupied[n])) = capacity(n)
    \/ occupied[n][direction].taxi # NoTaxi
    \/ incoming[n][direction] = NoTaxi
    \/ incoming[n][direction] # occupant
    \/ time2Occupy < 0

\* occupy that drops the pending request before it tests for failure
occupyDropsRequest(n, direction, occupant, origin) ==
    LET time2Occupy == travelTime(origin, n)
    IN  IF occupyFails(n, direction, occupant, time2Occupy)
        THEN [ok |-> FALSE, ret |-> NoPose,
              occ |-> occupied,
              inc |-> [incoming EXCEPT ![n][direction] = NoTaxi],
              reg |-> taxis]
        ELSE [ok |-> TRUE, ret |-> <<n, direction>>,
              occ |-> [occupied EXCEPT ![n][direction] =
                          [taxi |-> occupant, t |-> time + time2Occupy]],
              inc |-> [incoming EXCEPT ![n][direction] = NoTaxi],
              reg |-> clearAdmission(taxis, n, occupant)]

\* Node.occupy: what it returns (ret) and the state it leaves
occupy(n, direction, occupant, origin) ==
    LET time2Occupy == travelTime(origin, n)
    IN  IF occupyFails(n, direction, occupant, time2Occupy)
        THEN [ok |-> FALSE, ret |-> NoPose,
              occ |-> occupied, inc |-> incoming, reg |-> taxis]
        ELSE [ok |-> TRUE, ret |-> <<n, direction>>,
              occ |-> [occupied EXCEPT ![n][direction] =
                          [taxi |-> occupant, t |-> time + time2Occupy]],
              inc |-> [incoming EXCEPT ![n][direction] = NoTaxi],
              reg |-> clearAdmission(taxis, n, occupant)]

\* vacated that deletes the occupant whatever the neighbour answered
vacatedAlways(occ, n, directionIn, newSpace) ==
    [occ EXCEPT ![n][directionIn] = NoOcc]

\* Node.vacate after the neighbour's occupy returned newSpace: the occupant
\* stays on the sentinel and is deleted otherwise
vacated(occ, n, directionIn, newSpace) ==
    IF newSpace = NoPose THEN occ
    ELSE [occ EXCEPT ![n][directionIn] = NoOcc]

\* Node.turn: the exit direction it settles on (NoDir: it returns (None, -1))
turnDirection(n, directionIn, directionOut) ==
    LET ahead == (directionIn + 4) % 8
        right == (ahead - 1) % 8
        left == (right + 2) % 8
        relativeDirection ==
            IF directionOut >= 0 THEN directionOut
            ELSE IF neighbours(n, ahead) # NoNode THEN ahead
            ELSE IF neighbours(n, right) = NoNode
                 THEN (IF neighbours(n, left) = NoNode THEN NoDir ELSE left)
            ELSE IF neighbours(n, left) # NoNode THEN NoDir
            ELSE right
    IN  IF relativeDirection = NoDir THEN NoDir
        ELSE IF neighbours(n, relativeDirection) = NoNode THEN NoDir
        ELSE relativeDirection

\* Node.turn: whether the occupant must still wait in the junction
turnBlocked(n, directionIn) ==
    \/ traffic[n] = trafficMax(n)
    \/ time - occupied[n][directionIn].t < traffic[n]

\* ------------------------------------------------------------------------
\* The calls of the taxis. runWorld drives the on-duty taxis of the
\* registry between the junctions' clockTick and the dispatcher's.
\* ------------------------------------------------------------------------
\* A call that changes the pending requests of a junction starts its count
\* of successive clockTicks again.
restartRounds ==
    /\ rounds' = [n \in Nodes |-> IF incoming'[n] = incoming[n] THEN rounds[n] ELSE 0]
    /\ grants' = [n \in Nodes |-> IF incoming'[n] = incoming[n] THEN grants[n]
                                   ELSE [t \in Taxis |-> 0]]

taxiPhase == ~crashed /\ phase = "taxis" /\ calls < budget
betweenTicks == ~crashed /\ phase = "nodes" /\ nextNode = 1 /\ calls < budget
driven(t) == taxiPhase /\ taxis[t].in /\ onDuty[t]

\* NetWorld.addTaxi(taxi, location), called when the world is set up or by
\* a taxi coming on duty
AddTaxi(t, n) ==
    /\ taxiPhase \/ betweenTicks
    /\ t \in fleet
    /\ calls' = calls + 1
    /\ IF ~onDuty[t]
       THEN /\ last' = [NoCall EXCEPT !.op = "addTaxi", !.node = n, !.taxi = t]
            /\ UNCHANGED <<incoming, taxis, heading>>
       ELSE /\ incoming' = indicate(incoming, n, ingressPoint(n), t)
            /\ taxis' = [taxis EXCEPT ![t] = [in |-> TRUE, here |-> NoPose, adm |-> NoPose]]
            /\ heading' = [heading EXCEPT ![t] = <<n, ingressPoint(n)>>]
            /\ last' = [NoCall EXCEPT !.op = "addTaxi", !.node = n, !.taxi = t,
                                      !.dir = ingressPoint(n),
                                      !.ret = <<n, ingressPoint(n)>>]
    /\ UNCHANGED <<time, phase, nextNode, traffic, trafficSrc, trafficSink, trafficQ,
                   light, occupied, onDuty, fare, fareQ, fares, fareGen, crashed>>
    /\ restartRounds
    /\ dispatcherTaxis' = IF onDuty[t] /\ dispatcher THEN addTaxi(dispatcherTaxis, t)
                           ELSE dispatcherTaxis
    /\ UNCHANGED <<setup, notified, fareBoard, revenue, inbox, carrying>>

\* Node.turn(directionIn, directionOut) by the occupant of directionIn
Turn(n, directionIn, directionOut) ==
    LET t == occupied[n][directionIn].taxi
        rel == turnDirection(n, directionIn, directionOut)
        newDirection == (rel + 4) % 8
    IN  /\ t # NoTaxi
        /\ driven(t)
        /\ calls' = calls + 1
        /\ IF turnBlocked(n, directionIn) \/ rel = NoDir
           THEN /\ last' = [NoCall EXCEPT !.op = "turn", !.node = n, !.dir = directionIn,
                                          !.out = directionOut, !.taxi = t]
                /\ UNCHANGED <<incoming, heading>>
           ELSE /\ incoming' = indicate(incoming, neighbours(n, rel), newDirection, t)
                /\ heading' = [heading EXCEPT ![t] = <<neighbours(n, rel), newDirection>>]
                /\ last' = [NoCall EXCEPT !.op = "turn", !.node = n, !.dir = directionIn,
                                          !.out = directionOut, !.taxi = t,
                                          !.ret = <<neighbours(n, rel), newDirection>>]
        /\ UNCHANGED <<time, phase, nextNode, traffic, trafficSrc, trafficSink, trafficQ,
                       light, occupied, taxis, onDuty, fare, fareQ, fares, fareGen,
                       crashed>>
        /\ restartRounds
        /\ UNCHANGED <<setup, notified, dispatch>>

\* Node.abandon(direction, occupant) by a taxi, on the junction and
\* direction it is heading for
Abandon(t) ==
    LET n == heading[t][1]
        direction == heading[t][2]
    IN  /\ driven(t)
        /\ heading[t] # NoPose
        /\ calls' = calls + 1
        /\ IF incoming[n][direction] = NoTaxi
           THEN \* self._incoming[direction] raises KeyError
                /\ last' = [NoCall EXCEPT !.op = "abandon", !.node = n, !.dir = direction,
                                          !.taxi = t, !.exc = "KeyError"]
                /\ UNCHANGED incoming
           ELSE /\ incoming' = abandon(incoming, n, direction, t)
                /\ last' = [NoCall EXCEPT !.op = "abandon", !.node = n, !.dir = direction,
                                          !.taxi = t]
        /\ UNCHANGED <<time, phase, nextNode, traffic, trafficSrc, trafficSink, trafficQ,
                       light, occupied, taxis, onDuty, heading, fare, fareQ, fares,
                       fareGen, crashed>>
        /\ restartRounds
        /\ UNCHANGED <<setup, notified, dispatch>>

\* Node.occupy(direction, occupant) by a taxi coming in from outside
\* (origin is left None), on the junction and direction it is heading for
Occupy(t) ==
    LET n == heading[t][1]
        direction == heading[t][2]
        r == occupy(n, direction, t, NoNode)
    IN  /\ driven(t)
        /\ heading[t] # NoPose
        /\ calls' = calls + 1
        /\ occupied' = r.occ
        /\ incoming' = r.inc
        /\ taxis' = r.reg
        /\ heading' = IF r.ok THEN [heading EXCEPT ![t] = NoPose] ELSE heading
        /\ last' = [NoCall EXCEPT !.op = "occupy", !.node = n, !.dir = direction,
                                  !.taxi = t, !.ret = r.ret,
                                  !.occupy = TRUE, !.onode = n, !.odir = direction,
                                  !.otaxi = t, !.origin = NoNode, !.ook = r.ok]
        /\ UNCHANGED <<time, phase, nextNode, traffic, trafficSrc, trafficSink, trafficQ,
                       light, onDuty, fare, fareQ, fares, fareGen, crashed>>
        /\ restartRounds
        /\ UNCHANGED <<setup, notified, dispatch>>

\* Node.vacate(directionIn, None) by the occupant of directionIn
Leave(n, directionIn) ==
    LET t == occupied[n][directionIn].taxi
    IN  /\ t # NoTaxi
        /\ driven(t)
        /\ calls' = calls + 1
        /\ occupied' = [occupied EXCEPT ![n][directionIn] = NoOcc]
        /\ last' = [NoCall EXCEPT !.op = "vacate", !.node = n, !.dir = directionIn,
                                  !.taxi = t]
        /\ UNCHANGED <<time, phase, nextNode, traffic, trafficSrc, trafficSink, trafficQ,
                       light, incoming, taxis, onDuty, heading, fare, fareQ, fares,
                       fareGen, crashed>>
        /\ UNCHANGED <<setup, notified, rounds, grants, dispatch>>

\* Node.vacate(directionIn, directionOut) by the occupant of directionIn,
\* towards the neighbour and direction it is heading for
Vacate(n, directionIn) ==
    LET t == occupied[n][directionIn].taxi
        directionOut == heading[t][2]
        relativeDirection == (directionOut + 4) % 8
        nb == neighbours(n, relativeDirection)
        r == occupy(nb, directionOut, t, n)
    IN  /\ t # NoTaxi
        /\ driven(t)
        /\ heading[t] # NoPose
        /\ nb # NoNode
        /\ nb = heading[t][1]
        /\ calls' = calls + 1
        /\ occupied' = vacated(r.occ, n, directionIn, r.ret)
        /\ incoming' = r.inc
        /\ taxis' = r.reg
        /\ heading' = IF r.ok THEN [heading EXCEPT ![t] = NoPose] ELSE heading
        /\ last' = [NoCall EXCEPT !.op = "vacate", !.node = n, !.dir = directionIn,
                                  !.out = directionOut, !.taxi = t,
                                  !.ret = IF r.ok THEN r.ret ELSE <<n, directionIn>>,
                                  !.occupy = TRUE, !.onode = nb, !.odir = directionOut,
                                  !.otaxi = t, !.origin = n, !.ook = r.ok]
        /\ UNCHANGED <<time, phase, nextNode, traffic, trafficSrc, trafficSink, trafficQ,
                       light, onDuty, fare, fareQ, fares, fareGen, crashed>>
        /\ restartRounds
        /\ UNCHANGED <<setup, notified, dispatch>>

\* A taxi decides to go off duty (in its clockTick) or to come on duty (in
\* its comeOnDuty, which runWorld calls for the off-duty taxis)
GoOffDuty(t) ==
    /\ driven(t)
    /\ calls' = calls + 1
    /\ onDuty' = [onDuty EXCEPT ![t] = FALSE]
    /\ last' = [NoCall EXCEPT !.op = "offDuty", !.taxi = t]
    /\ UNCHANGED <<time, phase, nextNode, traffic, trafficSrc, trafficSink, trafficQ,
                   light, occupied, incoming, taxis, heading, fare, fareQ, fares, fareGen,
                   crashed>>
    /\ UNCHANGED <<setup, notified, rounds, grants, dispatch>>

ComeOnDuty(t) ==
    /\ taxiPhase
    /\ taxis[t].in
    /\ ~onDuty[t]
    /\ calls' = calls + 1
    /\ onDuty' = [onDuty EXCEPT ![t] = TRUE]
    /\ last' = [NoCall EXCEPT !.op = "onDuty", !.taxi = t]
    /\ UNCHANGED <<time, phase, nextNode, traffic, trafficSrc, trafficSink, trafficQ,
                   light, occupied, incoming, taxis, heading, fare, fareQ, fares, fareGen,
                   crashed>>
    /\ UNCHANGED <<setup, notified, rounds, grants, dispatch>>

\* NetWorld.transmitFareBid(origin, taxi) by a taxi, in a world that has a
\* dispatcher
Bid(t, origin) ==
    /\ driven(t)
    /\ dispatcher
    /\ calls' = calls + 1
    /\ fareBoard' = fareBid(fareBoard, origin, t)
    /\ last' = [NoCall EXCEPT !.op = "fareBid", !.node = origin, !.taxi = t,
                              !.done = fareBoard' # fareBoard]
    /\ UNCHANGED <<time, phase, nextNode, traffic, trafficSrc, trafficSink, trafficQ,
                   light, occupied, incoming, taxis, onDuty, heading, fare, fareQ, fares,
                   fareGen, crashed>>
    /\ UNCHANGED <<setup, notified, rounds, grants, dispatcherTaxis, revenue, inbox,
                   carrying>>

\* NetWorld.transmitFareBid(origin, taxi) by a taxi that exists and that the
\* world does not hold
RogueBid(t, origin) ==
    /\ taxiPhase
    /\ dispatcher
    /\ t \in fleet
    /\ ~taxis[t].in
    /\ calls' = calls + 1
    /\ fareBoard' = fareBid(fareBoard, origin, t)
    /\ last' = [NoCall EXCEPT !.op = "fareBid", !.node = origin, !.taxi = t,
                              !.done = fareBoard' # fareBoard]
    /\ UNCHANGED <<time, phase, nextNode, traffic, trafficSrc, trafficSink, trafficQ,
                   light, occupied, incoming, taxis, onDuty, heading, fare, fareQ, fares,
                   fareGen, crashed>>
    /\ UNCHANGED <<setup, notified, rounds, grants, dispatcherTaxis, revenue, inbox,
                   carrying>>

\* Node.pickupFare(direction) by the occupant of direction, which keeps
\* the fare it is given
Pickup(n, direction) ==
    LET t == occupied[n][direction].taxi
        f == fare[n]
    IN  /\ t # NoTaxi
        /\ driven(t)
        /\ calls' = calls + 1
        /\ IF pickupFare(n, direction)
           THEN /\ fare' = [fare EXCEPT ![n] = NoFare]
                /\ IF pickUp(f, t)
                   THEN /\ fares' = [fares EXCEPT ![f].enroute = TRUE]
                        /\ inbox' = removeFare(f, TRUE).inbox
                        /\ fareBoard' = removeFare(f, TRUE).board
                        /\ fareQ' = removeFare(f, TRUE).fareQ
                   ELSE UNCHANGED <<fares, inbox, fareBoard, fareQ>>
                /\ carrying' = [carrying EXCEPT ![t] = f]
                /\ last' = [NoCall EXCEPT !.op = "pickupFare", !.node = n,
                                          !.dir = direction, !.taxi = t, !.fare = f,
                                          !.done = TRUE]
           ELSE /\ last' = [NoCall EXCEPT !.op = "pickupFare", !.node = n,
                                          !.dir = direction, !.taxi = t]
                /\ UNCHANGED <<fare, fares, fareQ, carrying, inbox, fareBoard>>
        /\ UNCHANGED <<time, phase, nextNode, traffic, trafficSrc, trafficSink, trafficQ,
                       light, occupied, incoming, taxis, onDuty, heading, fareGen, crashed>>
        /\ UNCHANGED <<setup, notified, rounds, grants, dispatcherTaxis, revenue>>

\* Node.dropoffFare(fare, direction) by the occupant of direction, with the
\* fare it carries, in a world that has a dispatcher; NetWorld.completeFare
Dropoff(n, direction) ==
    LET t == occupied[n][direction].taxi
        f == carrying[t]
    IN  /\ t # NoTaxi
        /\ driven(t)
        /\ f # NoFare
        /\ dispatcher
        /\ calls' = calls + 1
        /\ IF dropoffFare(n, f, direction)
           THEN /\ revenue' = revenue + fares[f].price
                /\ inbox' = recvMsg(inbox, fares[f].taxi,
                                    message("FARE_PAY", NoNode, fares[f].price))
                /\ fares' = [fares EXCEPT ![f] = [clear(dropOff(@)) EXCEPT
                                                     !.ended = "completed"]]
                /\ carrying' = [carrying EXCEPT ![t] = NoFare]
                /\ last' = [NoCall EXCEPT !.op = "dropoffFare", !.node = n,
                                          !.dir = direction, !.taxi = t, !.fare = f,
                                          !.done = TRUE]
           ELSE /\ last' = [NoCall EXCEPT !.op = "dropoffFare", !.node = n,
                                          !.dir = direction, !.taxi = t, !.fare = f]
                /\ UNCHANGED <<revenue, inbox, fares, carrying>>
        /\ UNCHANGED <<time, phase, nextNode, traffic, trafficSrc, trafficSink, trafficQ,
                       light, occupied, incoming, taxis, onDuty, heading, fare, fareQ,
                       fareGen, crashed>>
        /\ UNCHANGED <<setup, notified, rounds, grants, dispatcherTaxis, fareBoard>>

\* ------------------------------------------------------------------------
\* NetWorld.runWorld: one tick is the clockTick of every junction, the
\* taxis, the dispatcher, the flush of the traffic queue
\* ------------------------------------------------------------------------
\* Node.clockTick, the fare step: the junction's fare leaves if it has
\* waited too long (NetWorld.removeFare); where there is none and taxis may
\* stop, one can appear (NetWorld.insertFare).
fareExpired(n) == time - fares[fare[n]].callTime > fares[fare[n]].waitTime

fareStep(n) ==
    IF fare[n] # NoFare
    THEN IF fareExpired(n)
         THEN /\ inbox' = removeFare(fare[n], fares[fare[n]].enroute).inbox
              /\ fareBoard' = removeFare(fare[n], fares[fare[n]].enroute).board
              /\ fareQ' = removeFare(fare[n], fares[fare[n]].enroute).fareQ
              /\ fare' = [fare EXCEPT ![n] = NoFare]
              /\ fares' = [fares EXCEPT ![fare[n]].ended = "abandoned"]
         ELSE UNCHANGED <<fare, fareQ, fares, fareBoard, inbox>>
    ELSE IF canStop(n) /\ fareGen[n] /\ time \in fareTicks /\ Len(fares) < MaxFares
                       /\ fareQ[n] = NoFare /\ fareDestinations(n) # {}
         THEN \E appears \in (IF fareSure THEN {TRUE} ELSE BOOLEAN),
                 m \in fareDestinations(n) :
                \E w \in fareWaits(n, m) :
                   IF appears
                   THEN /\ fares' = Append(fares, newFare(n, m, time, w))
                        /\ fareBoard' = dispatcherNewFare(fareBoard, Len(fares) + 1,
                                                          n, m, time)
                        /\ fareQ' = [fareQ EXCEPT ![n] = Len(fares) + 1]
                        /\ fare' = [fare EXCEPT ![n] = Len(fares) + 1]
                        /\ UNCHANGED inbox
                   ELSE UNCHANGED <<fare, fareQ, fares, fareBoard, inbox>>
         ELSE UNCHANGED <<fare, fareQ, fares, fareBoard, inbox>>

\* NetWorld.insertFare, the loop that draws a destination: it ends when the
\* junction drawn is another one where taxis may stop. Where the junction's
\* generator can fire and no such junction exists, the loop runs for ever
\* (TRUE); the generator may also not fire (FALSE).
insertFareSpins(n) ==
    IF /\ fare[n] = NoFare /\ canStop(n) /\ fareGen[n] /\ time \in fareTicks
       /\ Len(fares) < MaxFares /\ fareQ[n] = NoFare /\ fareDestinations(n) = {}
    THEN (IF fareSure THEN {TRUE} ELSE BOOLEAN)
    ELSE {FALSE}

\* A count of clockTicks, kept up to MaxRounds
tally(k) == IF k < MaxRounds THEN k + 1 ELSE k

\* What clockTick gave admitTaxi, before any clockTick has run
NoNotice == [node |-> NoNode, asked |-> FALSE, adm |-> <<>>, purged |-> 0]

\* Node.clockTick of junction n
ClockTick(n) ==
    LET flowed == flowTraffic(n, 0, traffic[n], trafficQ)
        occ == purgeOffDuty(occupied[n])
        admitting == /\ incomingDirs(incoming[n]) # {}
                     /\ flowed.t < trafficMax(n)
                     /\ Cardinality(occupiedDirs(occ)) <= capacity(n)
        granted == IF admitting
                   THEN grantLoop(capacity(n) - Cardinality(occupiedDirs(occ)),
                                  <<>>, light[n], incoming[n])
                   ELSE [adm |-> <<>>, light |-> light[n]]
        admitted == IF admitting
                    THEN admitTaxi(taxis, n, granted.adm, 1)
                    ELSE [reg |-> taxis, raised |-> FALSE]
        counted == /\ admitting
                   /\ Cardinality(occupiedDirs(occ)) < capacity(n)
                   /\ capacity(n) - Cardinality(occupiedDirs(occ))
                         < Cardinality(incomingDirs(incoming[n]))
        raised == \/ admitted.raised
                  \/ fare[n] # NoFare /\ fareExpired(n) /\ cancelRaises(fare[n])
    IN  /\ ~crashed
        /\ phase = "nodes"
        /\ nextNode = n
        /\ time < runTime
        /\ trafficQ' = flowed.q
        /\ occupied' = [occupied EXCEPT ![n] = occ]
        /\ light' = [light EXCEPT ![n] = granted.light]
        /\ taxis' = admitted.reg
        /\ IF raised
           THEN \* the ValueError of admitTaxi, or the IndexError of
                \* Dispatcher.cancelFare, leaves clockTick and runWorld
                /\ crashed' = TRUE
                /\ traffic' = [traffic EXCEPT ![n] = flowed.t]
                /\ UNCHANGED <<phase, nextNode, fare, fareQ, fares, fareBoard, inbox>>
           ELSE \E spins \in insertFareSpins(n) :
                IF spins
                THEN \* insertFare draws destinations and finds none to accept:
                     \* clockTick does not return
                     /\ crashed' = FALSE
                     /\ phase' = "insertFare"
                     /\ traffic' = [traffic EXCEPT ![n] = flowed.t]
                     /\ UNCHANGED <<nextNode, fare, fareQ, fares, fareBoard, inbox>>
                ELSE /\ crashed' = FALSE
                     /\ fareStep(n)
                     /\ traffic' = [traffic EXCEPT ![n] =
                                       injectTraffic(flowed.t, trafficMax(n), trafficSrc[n]).t]
                     /\ IF n + 1 \in Nodes
                        THEN nextNode' = n + 1 /\ phase' = "nodes"
                        ELSE nextNode' = 1 /\ phase' = "taxis"
        /\ last' = NoCall
        /\ UNCHANGED <<time, trafficSrc, trafficSink, incoming, onDuty, heading, fareGen,
                       calls>>
        /\ notified' = [node |-> n, asked |-> admitting, adm |-> granted.adm,
                         purged |-> Cardinality(occupiedDirs(occupied[n]))
                                       - Cardinality(occupiedDirs(occ))]
        /\ rounds' = [rounds EXCEPT ![n] = IF counted THEN tally(@) ELSE 0]
        /\ grants' = [grants EXCEPT ![n] =
                         [t \in Taxis |-> IF ~counted THEN 0
                                          ELSE IF \E i \in DOMAIN granted.adm : granted.adm[i][2] = t
                                               THEN tally(@[t])
                                               ELSE @[t]]]
        /\ UNCHANGED <<setup, dispatcherTaxis, revenue, carrying>>

\* A runWorld that goes from the taxis to the flush of the traffic queue
EndTaxiPhaseSkipsDispatcher ==
    /\ ~crashed
    /\ phase = "taxis"
    /\ phase' = "traffic"
    /\ last' = NoCall
    /\ UNCHANGED <<time, nextNode, traffic, trafficSrc, trafficSink, trafficQ, light,
                   occupied, incoming, taxis, onDuty, heading, fare, fareQ, fares,
                   fareGen, crashed, calls>>
    /\ UNCHANGED <<setup, notified, rounds, grants, dispatch>>

\* runWorld has driven every taxi of the registry
EndTaxiPhase ==
    /\ ~crashed
    /\ phase = "taxis"
    /\ phase' = "dispatcher"
    /\ last' = NoCall
    /\ UNCHANGED <<time, nextNode, traffic, trafficSrc, trafficSink, trafficQ, light,
                   occupied, incoming, taxis, onDuty, heading, fare, fareQ, fares,
                   fareGen, crashed, calls>>
    /\ UNCHANGED <<setup, notified, rounds, grants, dispatch>>

\* runWorld: "if self._dispatcher is not None", Dispatcher.clockTick
needsTaxi(f) ==
    /\ fareBoard[f].on /\ fareBoard[f].price # 0
    /\ awaitsTaxi(fareBoard[f])

DispatcherPhase ==
    /\ ~crashed
    /\ phase = "dispatcher"
    /\ phase' = "traffic"
    /\ IF dispatcher
       THEN LET st == dispatcherClockTick(1, [board |-> fareBoard, fares |-> fares,
                                               inbox |-> inbox])
            IN  /\ fareBoard' = st.board
                /\ fares' = st.fares
                /\ inbox' = st.inbox
       ELSE UNCHANGED <<fares, fareBoard, inbox>>
    /\ UNCHANGED <<time, nextNode, traffic, trafficSrc, trafficSink, trafficQ, light,
                   occupied, incoming, taxis, onDuty, heading, fare, fareQ,
                   fareGen, crashed, calls, last>>
    /\ UNCHANGED <<setup, notified, rounds, grants, dispatcherTaxis, revenue, carrying>>

\* A flush that empties the queue of junction n whatever the junction accepts
flushTrafficDropsRest(n) ==
    [t |-> injectTraffic(traffic[n], trafficMax(n), trafficQ[n]).t, r |-> trafficQ[n]]

\* runWorld: the queued traffic is injected, and the clock steps
flushTraffic(n) == injectTraffic(traffic[n], trafficMax(n), trafficQ[n])

TrafficFlush ==
    /\ ~crashed
    /\ phase = "traffic"
    /\ traffic' = [n \in Nodes |-> IF trafficQ[n] > 0 THEN flushTraffic(n).t ELSE traffic[n]]
    /\ trafficQ' = [n \in Nodes |-> IF trafficQ[n] > 0 THEN trafficQ[n] - flushTraffic(n).r
                                     ELSE trafficQ[n]]
    /\ time' = time + 1
    /\ phase' = "nodes"
    /\ UNCHANGED <<nextNode, trafficSrc, trafficSink, light, occupied, incoming, taxis,
                   onDuty, heading, fare, fareQ, fares, fareGen, crashed, calls, last>>
    /\ inbox' = [t \in Taxis |-> {}]
    /\ UNCHANGED <<setup, notified, rounds, grants, dispatcherTaxis, fareBoard, revenue,
                   carrying>>

\* ------------------------------------------------------------------------
\* The specification
\* ------------------------------------------------------------------------
\* NetWorld.__init__ and Node.__init__: nothing moves, no one is there
InitWorld ==
    /\ time = 0
    /\ phase = "nodes"
    /\ nextNode = 1
    /\ traffic = [n \in Nodes |-> 0]
    /\ trafficQ = [n \in Nodes |-> 0]
    /\ light = [n \in Nodes |-> 0]
    /\ occupied = [n \in Nodes |-> [d \in Dirs |-> NoOcc]]
    /\ incoming = [n \in Nodes |-> [d \in Dirs |-> NoTaxi]]
    /\ taxis = [t \in Taxis |-> NoEntry]
    /\ onDuty = [t \in Taxis |-> TRUE]
    /\ heading = [t \in Taxis |-> NoPose]
    /\ fare = [n \in Nodes |-> NoFare]
    /\ fareQ = [n \in Nodes |-> NoFare]
    /\ fares = <<>>
    /\ crashed = FALSE
    /\ last = NoCall
    /\ notified = NoNotice
    /\ rounds = [n \in Nodes |-> 0]
    /\ grants = [n \in Nodes |-> [t \in Taxis |-> 0]]
    /\ dispatcherTaxis = <<>>
    /\ fareBoard = [f \in FareIds |-> NoFareEntry]
    /\ revenue = 0
    /\ inbox = [t \in Taxis |-> {}]
    /\ carrying = [t \in Taxis |-> NoFare]

\* A world whose junctions never produce a fare. Junction (0,0) is quiet,
\* or has an intrinsic inflow, or an inflow and an outflow (Node.__init__
\* keeps the outflow as a negative volume).
Init ==
    /\ InitWorld
    /\ \E flows \in {<<0, 0>>, <<MaxSrc, 0>>, <<MaxSrc, MaxSink>>} :
          /\ trafficSrc = [n \in Nodes |-> IF n = 1 THEN flows[1] ELSE 0]
          /\ trafficSink = [n \in Nodes |-> IF n = 1 THEN -flows[2] ELSE 0]
    /\ fareGen = [n \in Nodes |-> FALSE]
    /\ runTime = MaxTime
    /\ trafficCap = [n \in Nodes |-> TrafficCap]
    /\ calls = 0
    /\ dispatcher = FALSE
    /\ fleet = Taxis
    /\ budget = MaxCalls
    /\ fareTicks = {}
    /\ account = [t \in Taxis |-> 0]
    /\ stopAllowed = [n \in Nodes |-> TRUE]
    /\ fareSure = FALSE
    /\ gammas = 1..MaxGamma

TaxiCall ==
    \/ \E t \in Taxis, n \in Nodes : AddTaxi(t, n)
    \/ \E n \in Nodes, d \in Dirs : \E out \in {NoDir} \cup exitDirs : Turn(n, d, out)
    \/ \E t \in Taxis : Abandon(t)
    \/ \E t \in Taxis : Occupy(t)
    \/ \E n \in Nodes, d \in Dirs : Leave(n, d)
    \/ \E n \in Nodes, d \in Dirs : Vacate(n, d)
    \/ \E t \in Taxis : GoOffDuty(t)
    \/ \E t \in Taxis : ComeOnDuty(t)

Tick ==
    \/ \E n \in Nodes : ClockTick(n)
    \/ EndTaxiPhase
    \/ DispatcherPhase
    \/ TrafficFlush

Next == TaxiCall \/ Tick

Spec == Init /\ [][Next]_vars

\* A world without taxis, whose junctions have any intrinsic inflow and
\* outflow: only the traffic moves.
FlowInit ==
    /\ InitWorld
    /\ trafficSrc \in [Nodes -> 0..MaxSrc]
    /\ \E sink \in [Nodes -> 0..MaxSink] : trafficSink = [n \in Nodes |-> -sink[n]]
    /\ fareGen = [n \in Nodes |-> FALSE]
    /\ runTime = MaxFlowTime
    /\ trafficCap = [n \in Nodes |-> TrafficCap]
    /\ calls = 0
    /\ dispatcher = FALSE
    /\ fleet = {}
    /\ budget = 0
    /\ fareTicks = {}
    /\ account = [t \in Taxis |-> 0]
    /\ stopAllowed = [n \in Nodes |-> TRUE]
    /\ fareSure = FALSE
    /\ gammas = 1..MaxGamma

FlowSpec == FlowInit /\ [][Tick]_vars

\* A quiet world that runs one tick longer, for taxis that make few calls:
\* requests can stay pending over several clockTicks.
FairInit ==
    /\ InitWorld
    /\ trafficSrc = [n \in Nodes |-> 0]
    /\ trafficSink = [n \in Nodes |-> 0]
    /\ fareGen = [n \in Nodes |-> FALSE]
    /\ runTime = MaxFairTime
    /\ trafficCap = [n \in Nodes |-> TrafficCap]
    /\ calls = 0
    /\ dispatcher = FALSE
    /\ fleet = Taxis
    /\ budget = MaxFairCalls
    /\ fareTicks = {}
    /\ account = [t \in Taxis |-> 0]
    /\ stopAllowed = [n \in Nodes |-> TRUE]
    /\ fareSure = FALSE
    /\ gammas = 1..MaxGamma

FairSpec == FairInit /\ [][Next]_vars

\* A busy world with a dispatcher and fares at junction (0,0):
\* (0,0) takes in and lets out QuietSrc units a tick and (1,0) BusySrc, so
\* that the travel time between them is long enough for the dispatcher's
\* price to be accepted.
BusyWorld ==
    /\ InitWorld
    /\ trafficSrc = [n \in Nodes |-> IF n = 1 THEN QuietSrc ELSE BusySrc]
    /\ trafficSink = [n \in Nodes |-> IF n = 1 THEN -QuietSrc ELSE -BusySrc]
    /\ fareGen = [n \in Nodes |-> n = 1]
    /\ trafficCap = [n \in Nodes |-> 0]
    /\ calls = 0
    /\ dispatcher = TRUE
    /\ stopAllowed = [n \in Nodes |-> TRUE]

FareCall ==
    \/ \E t \in Taxis, origin \in Nodes : Bid(t, origin)
    \/ \E n \in Nodes, d \in Dirs : Pickup(n, d)
    \/ \E n \in Nodes, d \in Dirs : Dropoff(n, d)

FareNext == Next \/ FareCall

\* The taxi can fetch a fare and take it to its destination
FareInit ==
    /\ BusyWorld /\ runTime = MaxFareTime /\ budget = MaxFareCalls /\ fareTicks = {0}
    /\ fleet = {1} /\ account = [t \in Taxis |-> 0]
    /\ fareSure = FALSE /\ gammas = 1..MaxGamma
FareSpec == FareInit /\ [][FareNext]_vars

\* The world runs until a fare has waited as long as it will
WaitInit ==
    /\ BusyWorld /\ runTime = MaxWaitTime /\ budget = MaxWaitCalls
    /\ fareTicks = 0..MaxCallTime
    /\ fleet = {1} /\ account = [t \in Taxis |-> 0]
    /\ fareSure = FALSE /\ gammas = 1..MaxGamma
\* The taxi of that world comes in, stays where it is and bids, also before
\* the world holds it
ParkedCall ==
    \/ \E t \in Taxis, n \in Nodes : AddTaxi(t, n)
    \/ \E t \in Taxis : Occupy(t)
    \/ \E t \in Taxis, origin \in Nodes : Bid(t, origin)
    \/ \E n \in Nodes, d \in Dirs : Pickup(n, d)
    \/ \E t \in Taxis : GoOffDuty(t)
    \/ \E t \in Taxis, origin \in Nodes : RogueBid(t, origin)

WaitNext == ParkedCall \/ Tick

WaitSpec == WaitInit /\ [][WaitNext]_vars

\* Two taxis, the second of any balance, come into that world, leave it and
\* bid, each of them or one that never came in. The fare_probability of
\* (0,0) is sure to return True at tick 0, and the fare's wait is the shortest.
BidInit ==
    /\ BusyWorld /\ runTime = MaxBidTime /\ budget = MaxBidCalls /\ fareTicks = {0}
    /\ fleet = Taxis
    /\ fareSure = TRUE /\ gammas = {1}
    /\ \E a \in 0..MaxAccount : account = [t \in Taxis |-> IF t = 1 THEN 0 ELSE a]

BidCall ==
    \/ \E t \in Taxis, n \in Nodes : AddTaxi(t, n)
    \/ \E t \in Taxis : Occupy(t)
    \/ \E n \in Nodes, d \in Dirs : Leave(n, d)
    \/ \E t \in Taxis, origin \in Nodes : Bid(t, origin)
    \/ \E t \in Taxis, origin \in Nodes : RogueBid(t, origin)

BidNext == BidCall \/ Tick

BidSpec == BidInit /\ [][BidNext]_vars

\* Worlds with a dispatcher and no taxi: the junctions have any of three
\* intrinsic flows and the ceiling 8 or TrafficCap, taxis may stop at both or
\* not at (1,0), and a fare can appear wherever the junction's
\* fare_probability is asked.
PriceInit ==
    /\ InitWorld
    /\ trafficSrc \in [Nodes -> {0, QuietSrc, BusySrc}]
    /\ trafficSink = [n \in Nodes |-> -trafficSrc[n]]
    /\ trafficCap \in {[n \in Nodes |-> 0], [n \in Nodes |-> TrafficCap]}
    /\ stopAllowed \in {[n \in Nodes |-> TRUE], [n \in Nodes |-> n = 1]}
    /\ fareGen = [n \in Nodes |-> TRUE]
    /\ fareTicks = 0..MaxCallTime
    /\ runTime = MaxPriceTime
    /\ calls = 0
    /\ dispatcher = TRUE
    /\ fleet = {}
    /\ budget = 0
    /\ account = [t \in Taxis |-> 0]
    /\ fareSure = FALSE
    /\ gammas = 1..MaxGamma

PriceSpec == PriceInit /\ [][Tick]_vars

\* ------------------------------------------------------------------------
\* Properties
\* ------------------------------------------------------------------------
\* A step that is a call of a taxi; last' then describes the call.
isCall == calls' = calls + 1
occupants(n) == Cardinality(occupiedDirs(occupied[n]))
\* The junctions taxi t is an occupant of
whereabouts(occ, t) == {n \in Nodes : \E d \in Dirs : occ[n][d].taxi = t}
\* The (junction, direction) slots taxi t is the occupant of
slotsOf(occ, t) == {<<n, d>> \in Nodes \X Dirs : occ[n][d].taxi = t}

\* C1: in every state every junction holds at most capacity occupants, and
\* every occupied direction holds one taxi of the world.
C1_OccupancyWithinCapacity ==
    \A n \in Nodes :
        /\ occupants(n) <= capacity(n)
        /\ \A d \in occupiedDirs(occupied[n]) : occupied[n][d].taxi \in Taxis

\* C1 witness: a junction is full and has just refused a taxi that had asked
\* for a free direction and could have reached it.
C1_Witness ==
    /\ last.occupy
    /\ ~last.ook
    /\ occupants(last.onode) = capacity(last.onode)
    /\ incoming[last.onode][last.odir] = last.otaxi
    /\ occupied[last.onode][last.odir].taxi = NoTaxi
    /\ travelTime(last.origin, last.onode) >= 0

\* C2: a vacate towards a neighbour empties the occupant's slot exactly when
\* the neighbour's occupy succeeded, and a taxi that was in that slot alone
\* is afterwards in exactly one slot: the neighbour's on success, its own
\* otherwise.
C2_VacateAtomic ==
    [][(isCall /\ last'.op = "vacate" /\ last'.out # NoDir) =>
          LET t == last'.taxi
              here == <<last'.node, last'.dir>>
              there == <<last'.onode, last'.odir>>
          IN  /\ (occupied'[here[1]][here[2]].taxi = NoTaxi) <=> last'.ook
              /\ last'.ret = (IF last'.ook THEN there ELSE here)
              /\ slotsOf(occupied, t) = {here} =>
                    slotsOf(occupied', t) = (IF last'.ook THEN {there} ELSE {here})
       ]_vars

\* C2 witness: a taxi has moved to the neighbour by vacate.
C2_Witness ==
    /\ last.op = "vacate"
    /\ last.out # NoDir
    /\ last.ook
    /\ slotsOf(occupied, last.taxi) = {<<last.onode, last.odir>>}

\* C2 witness of the other case: the neighbour refused and the taxi stayed.
C2_WitnessRefused ==
    /\ last.op = "vacate"
    /\ last.out # NoDir
    /\ ~last.ook
    /\ slotsOf(occupied, last.taxi) = {<<last.node, last.dir>>}

\* C3: an occupy succeeds only if, when it is called, the junction has
\* fewer occupants than its capacity, the direction is free, the pending
\* request of the direction is the caller's, and the travel time from the
\* origin is not negative.
C3_OccupyOnlyIf ==
    [][(isCall /\ last'.occupy /\ last'.ook) =>
          /\ occupants(last'.onode) < capacity(last'.onode)
          /\ occupied[last'.onode][last'.odir].taxi = NoTaxi
          /\ incoming[last'.onode][last'.odir] = last'.otaxi
          /\ travelTime(last'.origin, last'.onode) >= 0
       ]_vars

\* C3 witness: an occupy has succeeded.
C3_Witness ==
    /\ last.occupy
    /\ last.ook
    /\ occupied[last.onode][last.odir].taxi = last.otaxi

\* C4: a failed occupy returns the sentinel (None, -1), raises nothing, and
\* leaves the occupants, the pending requests and the registry as they were.
C4_FailedOccupyChangesNothing ==
    [][(isCall /\ last'.occupy /\ ~last'.ook) =>
          /\ last'.exc = ""
          /\ last'.op = "occupy" => last'.ret = NoPose
          /\ UNCHANGED <<occupied, incoming, taxis>>
       ]_vars

\* C4 witness: an occupy called by a taxi itself has failed.
C4_Witness ==
    /\ last.op = "occupy"
    /\ ~last.ook
    /\ last.ret = NoPose

\* C5: every successful occupy records the taxi as the occupant of the
\* direction with the timestamp now + travel time, removes the pending
\* request of the direction, leaves the taxi's admission in the registry
\* at (None, -1), and returns the junction and the direction.
C5_SuccessfulOccupyEffects ==
    [][(isCall /\ last'.occupy /\ last'.ook) =>
          LET n == last'.onode
              d == last'.odir
              who == last'.otaxi
          IN  /\ occupied'[n][d] = [taxi |-> who,
                                    t |-> time + travelTime(last'.origin, n)]
              /\ incoming'[n][d] = NoTaxi
              /\ taxis'[who].adm = NoPose
              /\ last'.ret = <<n, d>>
       ]_vars

\* C6: an occupy succeeds only for a taxi whose admission in the registry,
\* when it calls, is this junction and this direction.
C6_GrantBeforeEntry ==
    [][(isCall /\ last'.occupy /\ last'.ook) =>
          taxis[last'.otaxi].adm = <<last'.onode, last'.odir>>
       ]_vars

\* C7: after an abandon has removed the pending request of a direction, a
\* further abandon of the same direction by the same taxi completes
\* normally and changes nothing.
C7_AbandonIdempotent ==
    [][(/\ last.op = "abandon"
        /\ last.exc = ""
        /\ incoming[last.node][last.dir] = NoTaxi
        /\ isCall
        /\ last'.op = "abandon"
        /\ last'.node = last.node
        /\ last'.dir = last.dir
        /\ last'.taxi = last.taxi) =>
          /\ last'.exc = ""
          /\ UNCHANGED <<occupied, incoming, taxis>>
       ]_vars

\* C8: an abandon that names a taxi other than the one whose request is
\* pending for the direction removes nothing and completes normally; an
\* abandon changes the pending requests only by removing the request of
\* the taxi it names from the direction it names.
C8_AbandonIdentityChecked ==
    [][(isCall /\ last'.op = "abandon") =>
          LET n == last'.node
              d == last'.dir
              who == last'.taxi
          IN  /\ incoming[n][d] \notin {NoTaxi, who} =>
                    (UNCHANGED incoming /\ last'.exc = "")
              /\ incoming' # incoming =>
                    /\ incoming[n][d] = who
                    /\ incoming' = [incoming EXCEPT ![n][d] = NoTaxi]
              /\ UNCHANGED <<occupied, taxis>>
       ]_vars

\* C8 witness: a taxi has abandoned a direction whose pending request is
\* another taxi's, and that request is still there.
C8_Witness ==
    /\ last.op = "abandon"
    /\ last.exc = ""
    /\ incoming[last.node][last.dir] \notin {NoTaxi, last.taxi}

\* C9 as stated: a junction whose traffic is at its ceiling has a negative
\* travelTime to it and from it, whatever the other end, and no occupy of
\* it succeeds.
C9_GridlockAnyEnd ==
    \A n \in Nodes :
        traffic[n] = trafficMax(n) =>
            /\ \A m \in Nodes \cup {NoNode} :
                  travelTime(m, n) < 0 /\ travelTime(n, m) < 0
            /\ ~(last.occupy /\ last.ook /\ last.onode = n)

\* C9: a junction whose traffic is at its ceiling has a negative travelTime
\* to it from every junction and from outside (origin None), and from it to
\* every junction; from it to outside (destination None) travelTime is 0;
\* and no occupy of it succeeds.
C9_GridlockBoundary ==
    \A n \in Nodes :
        traffic[n] = trafficMax(n) =>
            /\ \A m \in Nodes \cup {NoNode} : travelTime(m, n) < 0
            /\ \A m \in Nodes : travelTime(n, m) < 0
            /\ travelTime(n, NoNode) = 0
            /\ ~(last.occupy /\ last.ook /\ last.onode = n)

\* C9 witness: a junction at its ceiling has refused the taxi whose request
\* was pending for a free direction, with room for it.
C9_Witness ==
    /\ last.occupy
    /\ ~last.ook
    /\ traffic[last.onode] = trafficMax(last.onode)
    /\ incoming[last.onode][last.odir] = last.otaxi
    /\ occupied[last.onode][last.odir].taxi = NoTaxi
    /\ occupants(last.onode) < capacity(last.onode)

\* C10: in every state the traffic of every junction is at most its ceiling.
C10_TrafficWithinCeiling == \A n \in Nodes : traffic[n] <= trafficMax(n)

\* C10 witness: junction (0,0), at its ceiling, has passed one unit on to
\* its neighbour and taken its inflow, which the ceiling cut.
C10_Witness ==
    /\ time = 1
    /\ phase = "taxis"
    /\ trafficSrc[1] = MaxSrc
    /\ trafficSink[1] = 0
    /\ trafficQ[2] > 0
    /\ traffic[1] = trafficMax(1)

\* C11: in every state the traffic of every junction is 0 or more, whatever
\* the intrinsic inflow and outflow of the junctions.
C11_TrafficNotNegative == \A n \in Nodes : traffic[n] \in Nat

\* The taxis whose request is pending at junction n
requesters(n) == {incoming[n][d] : d \in incomingDirs(incoming[n])}

\* C12: while the same N taxis keep requesting a junction that has free
\* slots, but fewer than N, every one of them has been granted within N
\* successive clockTicks, and none has been passed over twice while another
\* was granted twice.
C12_RoundRobinFair ==
    \A n \in Nodes :
        /\ rounds[n] >= Cardinality(requesters(n)) =>
              \A t \in requesters(n) : grants[n][t] >= 1
        /\ ~ \E a \in requesters(n), b \in requesters(n) :
                /\ a # b
                /\ rounds[n] - grants[n][a] >= 2
                /\ grants[n][b] >= 2

\* A step that is the clockTick of junction n
isTick(n) == phase = "nodes" /\ nextNode = n /\ calls' = calls
\* The requests pending at junction n, and the slots of n that no on-duty
\* taxi holds
pending(n) == Cardinality({d \in Dirs : incoming[n][d] # NoTaxi})
freeSlots(n) ==
    capacity(n) - Cardinality({d \in Dirs : /\ occupied[n][d].taxi # NoTaxi
                                            /\ onDuty[occupied[n][d].taxi]})
\* The traffic of junction n once its clockTick has passed traffic on
trafficAfterFlow(n) == flowTraffic(n, 0, traffic[n], trafficQ).t
min(a, b) == IF a < b THEN a ELSE b

\* C13: the clockTick of a junction whose traffic is below the ceiling, with
\* k pending requests and r free slots, gives admitTaxi min(k, r) grants.
C13_GrantsMinOfRequestsAndSlots ==
    [][\A n \in Nodes :
          (isTick(n) /\ trafficAfterFlow(n) < trafficMax(n) /\ freeSlots(n) >= 0) =>
              /\ notified'.node = n
              /\ Len(notified'.adm) = min(pending(n), freeSlots(n))
       ]_vars

\* C15: in one clockTick the flow comes before the purge, the purge before
\* the grants, the grants before the intrinsic inflow. Grants are made
\* exactly when a request is pending, the traffic left by the flow is below
\* the ceiling and fewer on-duty taxis than the capacity hold a slot: a slot
\* of an off-duty taxi counts as free, and the inflow of this tick has no say.
C15_TickStepOrder ==
    [][\A n \in Nodes :
          isTick(n) =>
              /\ notified'.node = n
              /\ Len(notified'.adm) >= 1 <=>
                     /\ pending(n) > 0
                     /\ trafficAfterFlow(n) < trafficMax(n)
                     /\ freeSlots(n) > 0
       ]_vars

\* A clockTick made a grant at a junction of capacity 1 whose slot an off-duty
\* taxi held when the tick began
C15_WitnessPurge ==
    /\ notified.node # NoNode
    /\ capacity(notified.node) = 1
    /\ notified.purged = 1
    /\ Len(notified.adm) >= 1

\* The clockTick of junction (0,0) made a grant and its inflow then filled
\* the junction to the ceiling
C15_WitnessInflow ==
    /\ phase = "nodes" /\ nextNode = 2
    /\ notified.node = 1
    /\ Len(notified.adm) >= 1
    /\ trafficSrc[1] > 0
    /\ traffic[1] = trafficMax(1)

\* The calls a taxi makes when runWorld drives it
drivenOps == {"turn", "abandon", "occupy", "vacate", "offDuty", "onDuty", "fareBid",
              "pickupFare", "dropoffFare"}
\* What the dispatcher's clockTick leaves behind: a price or a taxi on the
\* board, a FARE_ADVICE or FARE_ALLOC with a taxi
dispatcherActed ==
    \/ \E f \in FareIds : /\ fareBoard[f].on /\ fareBoard'[f].on
                           /\ \/ fareBoard'[f].price # fareBoard[f].price
                              \/ fareBoard'[f].taxi # fareBoard[f].taxi
    \/ \E t \in Taxis : \E m \in inbox'[t] \ inbox[t] :
          m.msg \in {"FARE_ADVICE", "FARE_ALLOC"}

\* C14: in every tick of runWorld the clockTicks of all junctions come first,
\* then the taxis, then the dispatcher's clockTick, then the flush of the
\* traffic queue, and only then does the time advance, by one.
C14_PhaseOrder ==
    [][/\ phase' # phase =>
             <<phase, phase'>> \in {<<"nodes", "taxis">>, <<"taxis", "dispatcher">>,
                                    <<"dispatcher", "traffic">>, <<"traffic", "nodes">>}
       /\ (phase = "nodes" /\ phase' = "taxis") =>
             /\ nextNode = Cardinality(Nodes) /\ nextNode' = 1
             /\ notified'.node = nextNode
       /\ (phase = "nodes" /\ phase' = "nodes" /\ nextNode' # nextNode) =>
             /\ nextNode' = nextNode + 1
             /\ notified'.node = nextNode
       /\ nextNode' # nextNode => phase = "nodes"
       /\ notified' # notified => phase = "nodes"
       /\ (isCall /\ last'.op \in drivenOps) => phase = "taxis"
       /\ dispatcherActed => phase = "dispatcher" /\ phase' = "traffic"
       /\ (\E n \in Nodes : trafficQ'[n] < trafficQ[n]) => phase = "traffic"
       /\ time' # time => phase = "traffic" /\ phase' = "nodes" /\ time' = time + 1
      ]_vars

\* Two ticks are over: a junction admitted the taxi, the taxi came in and
\* bid, the dispatcher priced the fare and gave it to the taxi, and the
\* traffic that flowed out of the junctions was flushed into them
C14_Witness ==
    /\ time = 2 /\ phase = "nodes" /\ nextNode = 1
    /\ \E f \in FareIds : fareBoard[f].on /\ fareBoard[f].taxi >= 0
    /\ \A n \in Nodes : trafficQ[n] = 0 /\ traffic[n] = trafficSrc[n]
    /\ \E n \in Nodes, d \in Dirs : occupied[n][d].taxi # NoTaxi

\* The fare at junction n has waited longer than it will, and the clockTick
\* of n makes it leave
fareLate(n) == time - fares[fare[n]].callTime > fares[fare[n]].waitTime
fareAbandoned(n) ==
    /\ fare'[n] = NoFare
    /\ fareQ'[n] = NoFare
    /\ fares'[fare[n]].ended = "abandoned"

\* C16: a fare that nobody collected is abandoned by the clockTick of its
\* junction at the first tick t with t - callTime > maxWait, and at no
\* earlier tick.
C16_AbandonedAtFirstLateTick ==
    [][\A n \in Nodes :
          (isTick(n) /\ fare[n] # NoFare) =>
              /\ fareLate(n) <=> fareAbandoned(n)
              /\ ~fareLate(n) => fare'[n] = fare[n] /\ fareQ'[n] = fare[n]
       ]_vars

\* The same, for the clockTicks in which Dispatcher.cancelFare does not raise
C16_AbandonedUnlessRaised ==
    [][\A n \in Nodes :
          (isTick(n) /\ fare[n] # NoFare /\ ~cancelRaises(fare[n])) =>
              /\ fareLate(n) <=> fareAbandoned(n)
              /\ ~fareLate(n) => fare'[n] = fare[n] /\ fareQ'[n] = fare[n]
       ]_vars

\* A step completes fare f: dropoffFare returned True, completeFare paid
completes(f) ==
    \/ fares'[f].ended = "completed" /\ fares[f].ended # "completed"
    \/ isCall /\ last'.op = "dropoffFare" /\ last'.done /\ last'.fare = f

isPickup == isCall /\ last'.op = "pickupFare"
allocatedTo(n, t) == fare[n] # NoFare /\ fares[fare[n]].taxi = t

\* C18: a fare becomes ENROUTE only by the pickupFare of the taxi it is
\* allocated to, an occupant of the fare's origin; the junction then holds no
\* fare, the fare queue has none for that origin, and the dispatcher is told
\* of no cancellation. The pickupFare of any other taxi returns nothing and
\* changes nothing.
C18_PickupByAllocatedTaxi ==
    [][/\ \A f \in DOMAIN fares :
             (fares'[f].enroute /\ ~fares[f].enroute) =>
                 /\ isPickup /\ last'.done /\ last'.fare = f
                 /\ last'.taxi = fares[f].taxi
                 /\ last'.node = fares[f].origin
                 /\ fare[last'.node] = f
       /\ isPickup =>
             /\ occupied[last'.node][last'.dir].taxi = last'.taxi
             /\ IF allocatedTo(last'.node, last'.taxi)
                THEN /\ last'.done /\ last'.fare = fare[last'.node]
                     /\ fares'[last'.fare].enroute
                     /\ carrying'[last'.taxi] = last'.fare
                     /\ fare'[last'.node] = NoFare
                     /\ fareQ'[last'.node] = NoFare
                     /\ fareBoard' = fareBoard /\ inbox' = inbox
                ELSE /\ ~last'.done /\ last'.fare = NoFare
                     /\ UNCHANGED <<fare, fareQ, fares, fareBoard, inbox, carrying,
                                    revenue, occupied, incoming, taxis, onDuty,
                                    dispatcherTaxis, traffic, trafficQ, light>>
      ]_vars

\* The taxi a fare was allocated to has picked it up
C18_Witness ==
    /\ last.op = "pickupFare" /\ last.done
    /\ fares[last.fare].enroute /\ fares[last.fare].taxi = last.taxi
    /\ carrying[last.taxi] = last.fare

\* A taxi called pickupFare where a fare waits that is not allocated to it
C18_WitnessRefused ==
    /\ last.op = "pickupFare" /\ ~last.done
    /\ fare[last.node] # NoFare

\* The vehicles fare f refers to or is held by: the taxi it is allocated to,
\* and the taxis that carry it
vehiclesOf(f) ==
    {t \in Taxis : fares[f].taxi = t \/ (carrying[t] = f /\ fares[f].enroute)}
holdsNothing(f) ==
    /\ fares[f].taxi = NoTaxi
    /\ fares[f].origin = NoNode
    /\ fares[f].destination = NoNode
    /\ ~fares[f].parent

\* C19: a fare refers to at most one vehicle at a time, and a fare that is
\* completed or abandoned refers to nothing: not to its taxi, its origin, its
\* destination or the world.
C19_TerminalFaresHoldNothing ==
    \A f \in DOMAIN fares :
        /\ Cardinality(vehiclesOf(f)) <= 1
        /\ fares[f].ended \in {"completed", "abandoned"} => holdsNothing(f)

\* The part of it that is about completed fares
C19_CompletedFaresHoldNothing ==
    \A f \in DOMAIN fares :
        /\ Cardinality(vehiclesOf(f)) <= 1
        /\ fares[f].ended = "completed" => holdsNothing(f)

\* C20: when a fare that is allocated to a taxi has waited too long, the
\* clockTick of its junction abandons it and the taxi, if it is still on duty,
\* has a FARE_CANCEL for the fare's origin before the tick is over.
C20_CancelReachesAllocatedTaxi ==
    [][\A n \in Nodes :
          (isTick(n) /\ fare[n] # NoFare /\ fares[fare[n]].taxi # NoTaxi /\ fareLate(n)) =>
              /\ fareAbandoned(n)
              /\ time' = time
              /\ onDuty[fares[fare[n]].taxi] =>
                    message("FARE_CANCEL", n, 0) \in inbox'[fares[fare[n]].taxi]
       ]_vars

\* A fare that was allocated to a taxi on duty was abandoned, and the taxi
\* has the FARE_CANCEL
C20_Witness ==
    \E f \in DOMAIN fares :
        /\ fares[f].ended = "abandoned"
        /\ fares[f].taxi # NoTaxi
        /\ onDuty[fares[f].taxi]
        /\ message("FARE_CANCEL", fares[f].origin, 0) \in inbox[fares[f].taxi]

\* The same fare, whose taxi had gone off duty: it was told nothing
C20_WitnessOffDuty ==
    \E f \in DOMAIN fares :
        /\ fares[f].ended = "abandoned"
        /\ fares[f].taxi # NoTaxi
        /\ ~onDuty[fares[f].taxi]
        /\ inbox[fares[f].taxi] = {}

\* The fares that the step gives a price, and the travel time the world
\* estimates for fare f when it does
pricedNow == {f \in DOMAIN fares : fares'[f].price # fares[f].price}
estimate(f) == travelTime(fares[f].origin, fares[f].destination)

\* C21: when a fare is given price p while the world's travel time estimate
\* from its origin to its destination is t, its maximum wait becomes 0 exactly
\* when t < 0 or p > 10*t, and stays as it was otherwise. A fare gets its
\* price in the dispatcher's clockTick, the one its board entry gets.
C21_PriceSanity ==
    [][\A f \in pricedNow :
          /\ phase = "dispatcher"
          /\ fareBoard[f].on /\ fareBoard[f].price = 0
          /\ fares'[f].price = fareBoard'[f].price
          /\ fares'[f].price = costFare(fareBoard[f])
          /\ fares'[f].waitTime =
                IF estimate(f) < 0 \/ fares'[f].price > 90 * estimate(f)
                THEN 0 ELSE fares[f].waitTime
       ]_vars

\* A fare was given a price of more than ten times a travel time that is not
\* negative, and its maximum wait is 0
C21_Witness ==
    /\ phase = "traffic"
    /\ \E f \in DOMAIN fares :
          /\ fares[f].price > 90 * estimate(f)
          /\ estimate(f) >= 0
          /\ fares[f].waitTime = 0

\* A fare was given a price while its junction was gridlocked
C21_WitnessGridlock ==
    /\ phase = "traffic"
    /\ \E f \in DOMAIN fares :
          /\ fares[f].price = 9 * 150
          /\ estimate(f) < 0
          /\ fares[f].waitTime = 0

\* A fare was given a price of at most ten times the travel time, and waits on
C21_WitnessKept ==
    /\ phase = "traffic"
    /\ \E f \in DOMAIN fares :
          /\ fares[f].price > 0
          /\ fares[f].price <= 90 * estimate(f)
          /\ fares[f].waitTime > 0

\* The FARE_ALLOC for a fare of origin o, the taxis the step gives one, and
\* the entries of origin o that the step marks with a taxi
allocMsg(o) == message("FARE_ALLOC", o, 0)
allocReceivers(o) == {t \in Taxis : allocMsg(o) \in inbox'[t] \ inbox[t]}
markedNow(o) ==
    {f \in FareIds : /\ fareBoard[f].on /\ fareBoard[f].origin = o /\ fareBoard[f].taxi < 0
                     /\ fareBoard'[f].on /\ fareBoard'[f].taxi >= 0}

\* C22: the taxi of a board entry is set at most once, and so is the taxi of
\* the fare; a step marks at most one entry of an origin; a FARE_ALLOC for an
\* origin goes to no taxi but the one the step marks the entry of that origin's
\* fare with, in the dispatcher's clockTick, once in a tick. So whatever bids
\* are made, also on a fare that has a taxi, no second taxi is ever allocated
\* the fare or told that it is.
C22_AllocatedAtMostOnce ==
    [][/\ \A f \in FareIds :
             (fareBoard[f].on /\ fareBoard[f].taxi >= 0 /\ fareBoard'[f].on) =>
                 fareBoard'[f].taxi = fareBoard[f].taxi
       /\ \A f \in DOMAIN fares :
             fares[f].taxi # NoTaxi => fares'[f].taxi \in {fares[f].taxi, NoTaxi}
       /\ \A o \in Nodes :
             /\ Cardinality(markedNow(o)) <= 1
             /\ (\E t \in Taxis : allocMsg(o) \in inbox[t]) => phase = "traffic"
             /\ allocReceivers(o) # {} =>
                   /\ phase = "dispatcher"
                   /\ \E f \in markedNow(o) :
                         /\ fareQ[o] = f
                         /\ allocReceivers(o) = {taxiAt(dispatcherTaxis, fareBoard'[f].taxi)}
      ]_vars

\* Two taxis bid on the fare in one tick, one of them was allocated the fare
\* and has the FARE_ALLOC, the other has none
C22_Witness ==
    \E f \in FareIds, a \in Taxis, b \in Taxis :
        /\ a # b
        /\ fareBoard[f].on /\ fareBoard[f].taxi >= 0
        /\ taxiAt(dispatcherTaxis, fareBoard[f].taxi) = a
        /\ \E i, j \in DOMAIN fareBoard[f].bidders :
              /\ taxiAt(dispatcherTaxis, fareBoard[f].bidders[i]) = a
              /\ taxiAt(dispatcherTaxis, fareBoard[f].bidders[j]) = b
        /\ allocMsg(fareBoard[f].origin) \in inbox[a]
        /\ allocMsg(fareBoard[f].origin) \notin inbox[b]
        /\ fares[f].taxi = a

\* The dispatcher's clockTick has run again over an entry that has bids and a
\* taxi, while another taxi could be given it, and has sent no FARE_ALLOC
C22_WitnessSecondPass ==
    \E f \in FareIds :
        /\ fareBoard[f].on /\ fareBoard[f].taxi >= 0
        /\ time = 2 /\ phase = "traffic"
        /\ \A t \in Taxis : allocMsg(fareBoard[f].origin) \notin inbox[t]
        /\ \E t \in Taxis : t # taxiAt(dispatcherTaxis, fareBoard[f].taxi) /\ t \in eligible

\* The taxis that have bid on entry e of the board
biddersOf(e) == {taxiAt(dispatcherTaxis, e.bidders[i]) : i \in DOMAIN e.bidders}

\* C23: the taxi the dispatcher marks a board entry with is one of the taxis
\* that have bid on the entry.
C23_WinnerAmongBidders ==
    [][\A o \in Nodes : \A f \in markedNow(o) :
          taxiAt(dispatcherTaxis, fareBoard'[f].taxi) \in biddersOf(fareBoard[f])
      ]_vars

\* The board as Dispatcher.clockTick has it when it reaches entry f: the
\* entries before f are as the step leaves them
boardAt(f) == [g \in FareIds |-> IF g < f THEN fareBoard'[g] ELSE fareBoard[g]]

\* The eligible taxis no eligible taxi outscores for a fare at origin
topScorers(board, origin) ==
    {t \in eligible : \A u \in eligible :
        adjustedScore(board, u, origin) <= adjustedScore(board, t, origin)}

\* C24: the taxi an entry is marked with is fixed by the board, the list of
\* taxis and the scores: it is the one eligible taxi that no eligible taxi
\* outscores and that no taxi of equal score precedes in the dispatcher's list.
C24_EarliestTopScorerWins ==
    [][\A o \in Nodes : \A f \in markedNow(o) :
          LET w == taxiAt(dispatcherTaxis, fareBoard'[f].taxi)
              top == topScorers(boardAt(f), o)
          IN  /\ w \in top
              /\ \A u \in top : taxiIndex(dispatcherTaxis, w) <= taxiIndex(dispatcherTaxis, u)
      ]_vars

\* The board without the taxi of entry f
unmarked(f) == [fareBoard EXCEPT ![f].taxi = -1]

\* The dispatcher's clockTick has just given the only fare of the board to the
\* earlier of two taxis of equal top score
C24_Witness ==
    \E f \in FareIds, w \in Taxis, u \in Taxis :
        /\ phase = "traffic"
        /\ fareBoard[f].on /\ fareBoard[f].taxi >= 0
        /\ \A g \in FareIds \ {f} : ~fareBoard[g].on
        /\ w = taxiAt(dispatcherTaxis, fareBoard[f].taxi)
        /\ allocMsg(fareBoard[f].origin) \in inbox[w]
        /\ u # w /\ u \in eligible /\ w \in eligible
        /\ adjustedScore(unmarked(f), u, fareBoard[f].origin)
              = adjustedScore(unmarked(f), w, fareBoard[f].origin)
        /\ taxiIndex(dispatcherTaxis, w) < taxiIndex(dispatcherTaxis, u)

\* The dispatcher's clockTick has just given the only fare of the board to the
\* later taxi of its list, which outscores the earlier one
C24_WitnessLaterWins ==
    \E f \in FareIds, w \in Taxis, u \in Taxis :
        /\ phase = "traffic"
        /\ fareBoard[f].on /\ fareBoard[f].taxi >= 0
        /\ \A g \in FareIds \ {f} : ~fareBoard[g].on
        /\ w = taxiAt(dispatcherTaxis, fareBoard[f].taxi)
        /\ allocMsg(fareBoard[f].origin) \in inbox[w]
        /\ u # w /\ u \in eligible /\ w \in eligible
        /\ adjustedScore(unmarked(f), u, fareBoard[f].origin)
              < adjustedScore(unmarked(f), w, fareBoard[f].origin)
        /\ taxiIndex(dispatcherTaxis, u) < taxiIndex(dispatcherTaxis, w)

\* C25: in the step in which the dispatcher marks a board entry with a taxi,
\* that taxi is sent FARE_ALLOC for the entry's origin; the step is the
\* dispatcher's clockTick, so the message is there before the tick ends.
C25_WinnerGetsAlloc ==
    [][\A o \in Nodes : \A f \in markedNow(o) :
          /\ phase = "dispatcher" /\ time' = time
          /\ allocMsg(o) \in inbox'[taxiAt(dispatcherTaxis, fareBoard'[f].taxi)]
      ]_vars

\* What holds of C25: a taxi that is on duty when it is marked on an entry is
\* sent FARE_ALLOC in the same step, and the fare of the origin is assigned to it
C25_OnDutyWinnerGetsAlloc ==
    [][\A o \in Nodes : \A f \in markedNow(o) :
          LET w == taxiAt(dispatcherTaxis, fareBoard'[f].taxi)
          IN  /\ phase = "dispatcher" /\ time' = time
              /\ onDuty[w] =>
                    /\ allocMsg(o) \in inbox'[w]
                    /\ fareQ[o] # NoFare /\ fares'[fareQ[o]].taxi = w
      ]_vars

\* C29: the entry of a fare that is in the fare queue records a taxi only if
\* the fare is assigned to that taxi.
C29_BoardAgreesWithNetwork ==
    \A f \in FareIds :
        (fareBoard[f].on /\ fareBoard[f].taxi >= 0 /\ fareQ[fareBoard[f].origin] = f) =>
            fares[f].taxi = taxiAt(dispatcherTaxis, fareBoard[f].taxi)

\* What holds of C29: a fare of the fare queue that is assigned to a taxi has
\* an entry on the board that records that taxi
C29_AssignedFareIsOnBoard ==
    \A o \in Nodes :
        (fareQ[o] # NoFare /\ fares[fareQ[o]].taxi # NoTaxi) =>
            /\ fareBoard[fareQ[o]].on /\ fareBoard[fareQ[o]].taxi >= 0
            /\ taxiAt(dispatcherTaxis, fareBoard[fareQ[o]].taxi) = fares[fareQ[o]].taxi

\* The entries of the board at origin that have no taxi
openEntries(origin) ==
    {f \in FareIds : fareBoard[f].on /\ fareBoard[f].origin = origin /\ fareBoard[f].taxi = -1}

\* The step is a call of transmitFareBid
bidStep == calls' = calls + 1 /\ last'.op = "fareBid"

\* C26: a bid by a taxi the dispatcher does not know, or for an origin that
\* has no entry without a taxi, changes nothing on the board and raises
\* nothing; any other bid adds the bidder's index to the bidders of one entry,
\* an entry of the origin that has no taxi, and changes nothing else. No bid
\* sends a message.
C26_BidRecordedOrBoardUnchanged ==
    [][bidStep =>
          LET t == last'.taxi
              origin == last'.node
          IN  /\ last'.exc = "" /\ crashed' = crashed /\ inbox' = inbox
              /\ (~knownTaxi(dispatcherTaxis, t) \/ openEntries(origin) = {}) =>
                    fareBoard' = fareBoard
              /\ (knownTaxi(dispatcherTaxis, t) /\ openEntries(origin) # {}) =>
                    \E f \in openEntries(origin) :
                        /\ fareBoard'[f] = [fareBoard[f] EXCEPT
                              !.bidders = Append(@, taxiIndex(dispatcherTaxis, t))]
                        /\ \A g \in FareIds \ {f} : fareBoard'[g] = fareBoard[g]
      ]_vars

\* A taxi the dispatcher knows has bid on an origin whose only entry has a
\* taxi, and the board is as it was
C26_Witness ==
    /\ last.op = "fareBid" /\ ~last.done
    /\ knownTaxi(dispatcherTaxis, last.taxi)
    /\ openEntries(last.node) = {}
    /\ \E f \in FareIds : /\ fareBoard[f].on /\ fareBoard[f].origin = last.node
                          /\ fareBoard[f].taxi >= 0

\* A taxi the dispatcher does not know has bid on an origin that has an entry
\* without a taxi, and the board is as it was
C26_WitnessUnknown ==
    /\ last.op = "fareBid" /\ ~last.done
    /\ ~knownTaxi(dispatcherTaxis, last.taxi)
    /\ openEntries(last.node) # {}

\* A taxi the dispatcher knows has bid on an origin that has no entry
C26_WitnessNoEntry ==
    /\ last.op = "fareBid" /\ ~last.done
    /\ knownTaxi(dispatcherTaxis, last.taxi)
    /\ \A f \in FareIds : ~(fareBoard[f].on /\ fareBoard[f].origin = last.node)

\* A bid has been recorded on an entry that has no taxi
C26_WitnessRecorded ==
    /\ last.op = "fareBid" /\ last.done
    /\ \E f \in openEntries(last.node) :
          /\ Len(fareBoard[f].bidders) > 1
          /\ fareBoard[f].bidders[Len(fareBoard[f].bidders)]
                = taxiIndex(dispatcherTaxis, last.taxi)

\* The fares that wait at junction n: created with origin n, neither collected
\* nor gone
waitingAt(n) ==
    {f \in DOMAIN fares : /\ fares[f].origin = n /\ ~fares[f].enroute
                          /\ fares[f].ended = ""}

\* What C27 says of one state: a junction where no taxi may stop has no fare,
\* and a junction has no waiting fare but the one it holds
oneFareWhereStopping ==
    \A n \in Nodes :
        /\ ~stopAllowed[n] => (fare[n] = NoFare /\ fareQ[n] = NoFare)
        /\ waitingAt(n) \subseteq {fare[n]}
        /\ Cardinality(waitingAt(n)) <= 1

\* C27: a junction where no taxi may stop holds no fare and every junction has
\* at most one waiting fare, in every state; a fare appears only in the
\* clockTick of a junction where a taxi may stop and that held no fare.
C27_FareOnlyWhereStopping ==
    [][/\ oneFareWhereStopping /\ oneFareWhereStopping'
       /\ \A n \in Nodes :
             (fare'[n] # NoFare /\ fare'[n] # fare[n]) =>
                 /\ isTick(n)
                 /\ stopAllowed[n]
                 /\ fare[n] = NoFare /\ waitingAt(n) = {}
                 /\ Len(fares') = Len(fares) + 1 /\ fare'[n] = Len(fares')
      ]_vars

\* Taxis may not stop at a junction that makes fares; its clockTick has run
\* at a tick at which fares call, and it holds no fare
C27_Witness ==
    \E n \in Nodes :
        /\ ~stopAllowed[n] /\ fareGen[n] /\ 0 \in fareTicks
        /\ time >= 1
        /\ fare[n] = NoFare

\* A junction holds the fare that appeared at tick 0, and its clockTick has run
\* again at a tick at which fares call: no second fare has appeared
C27_WitnessNoSecond ==
    \E n \in Nodes :
        /\ stopAllowed[n] /\ fare[n] # NoFare /\ fares[fare[n]].callTime = 0
        /\ 1 \in fareTicks /\ time >= 2
        /\ Len(fares) < MaxFares

\* The clockTick of junction n abandons a fare that the board has with no taxi
abandonsUnallocated(n) ==
    /\ isTick(n) /\ ~crashed
    /\ fare[n] # NoFare /\ fareExpired(n) /\ ~fares[fare[n]].enroute
    /\ fareBoard[fare[n]].on /\ fareBoard[fare[n]].taxi < 0

\* C28: when a fare that was never allocated is abandoned, no taxi is sent
\* FARE_CANCEL and nothing is raised, whatever taxis the dispatcher knows.
C28_NoCancelForUnallocatedFare ==
    [][\A n \in Nodes :
          abandonsUnallocated(n) =>
              /\ ~crashed'
              /\ \A t \in Taxis : inbox'[t] \ inbox[t] = {}
      ]_vars

\* What holds of C28: when the dispatcher knows a taxi, the abandonment raises
\* nothing and removes the fare and its entry; FARE_CANCEL goes to no taxi but
\* the last of the dispatcher's list
C28_CancelGoesToLastTaxi ==
    [][\A n \in Nodes :
          (abandonsUnallocated(n) /\ dispatcherTaxis # <<>>) =>
              /\ ~crashed'
              /\ fare'[n] = NoFare /\ ~fareBoard'[fare[n]].on
              /\ \A t \in Taxis :
                    inbox'[t] \ inbox[t] # {} =>
                        /\ t = dispatcherTaxis[Len(dispatcherTaxis)]
                        /\ inbox'[t] \ inbox[t] = {message("FARE_CANCEL", n, 0)}
      ]_vars

\* The taxis that the clockTick of this step grants admission while they are
\* off duty
grantedOffDuty ==
    {t \in Taxis : /\ ~onDuty[t] /\ taxis[t].in
                   /\ \E i \in DOMAIN notified'.adm : notified'.adm[i][2] = t}

\* C30: after admitTaxi has processed the grants of a clockTick, a taxi among
\* them that is off duty has no admission.
C30_NoAdmissionOffDuty ==
    [][\A n \in Nodes :
          (isTick(n) /\ notified'.asked) =>
              \A t \in grantedOffDuty : taxis'[t].adm = NoPose
      ]_vars

\* What holds of C30: the admission of a taxi that is granted while off duty
\* names the granting junction and the direction of the grant, whatever
\* admission it had
C30_OffDutyAdmittedToGranter ==
    [][\A n \in Nodes :
          (isTick(n) /\ notified'.asked /\ ~crashed') =>
              \A t \in grantedOffDuty :
                  /\ taxis'[t].adm[1] = n
                  /\ \E i \in DOMAIN notified'.adm : notified'.adm[i] = <<taxis'[t].adm[2], t>>
      ]_vars

\* The taxis on the grant list that the clockTick of this step gives admitTaxi
grantedNow == {notified'.adm[i][2] : i \in DOMAIN notified'.adm}

\* C31: a taxi has one admission pose; a grant from junction n to a taxi whose
\* admission names another junction leaves it without admission, and a grant
\* from n to a taxi admitted to n leaves its admission as it was.
C31_GrantElsewhereVoids ==
    [][\A n \in Nodes :
          (isTick(n) /\ notified'.asked /\ ~crashed') =>
              \A t \in grantedNow :
                  /\ (taxis[t].adm # NoPose /\ taxis[t].adm[1] # n) =>
                        taxis'[t].adm = NoPose
                  /\ taxis[t].adm[1] = n => taxis'[t].adm = taxis[t].adm
      ]_vars

\* What holds of C31: the same, of the taxis that are on duty
C31_GrantElsewhereVoidsOnDuty ==
    [][\A n \in Nodes :
          (isTick(n) /\ notified'.asked /\ ~crashed') =>
              \A t \in grantedNow :
                  onDuty[t] =>
                      /\ (taxis[t].adm # NoPose /\ taxis[t].adm[1] # n) =>
                            taxis'[t].adm = NoPose
                      /\ taxis[t].adm[1] = n => taxis'[t].adm = taxis[t].adm
      ]_vars

\* A clockTick of a junction has granted a taxi on duty that had the
\* admission of the other junction, and the taxi has no admission
C31_Witness ==
    \E t \in Taxis :
        /\ phase = "nodes" /\ notified.asked /\ onDuty[t]
        /\ \E i \in DOMAIN notified.adm : notified.adm[i][2] = t
        /\ taxis[t].in /\ taxis[t].adm = NoPose

\* The step is a vacate of junction n by the occupant of direction d that
\* takes it into the neighbour it turned to (the taxi was added at no
\* junction since: its heading is not the ingress point of the neighbour)
movesOut(n, d) ==
    /\ calls' = calls + 1
    /\ last'.op = "vacate" /\ last'.node = n /\ last'.dir = d
    /\ last'.occupy /\ last'.ook
    /\ heading[last'.taxi] # <<last'.onode, ingressPoint(last'.onode)>>

\* C32: no move out of a junction to a neighbour, by a turn and a vacate,
\* succeeds while the time since the occupant's timestamp is less than the
\* junction's traffic, or while the traffic is at the ceiling.
C32_NoMoveBeforeDwell ==
    [][\A n \in Nodes, d \in Dirs :
          movesOut(n, d) =>
              /\ traffic[n] # trafficMax(n)
              /\ time - occupied[n][d].t >= traffic[n]
      ]_vars

\* What holds of C32: no move out succeeds while the traffic of the junction
\* is at the ceiling, and no turn succeeds before the dwell is over
C32_NoMoveInGridlock ==
    [][\A n \in Nodes, d \in Dirs :
          /\ movesOut(n, d) => traffic[n] # trafficMax(n)
          /\ (/\ calls' = calls + 1 /\ last'.op = "turn" /\ last'.node = n /\ last'.dir = d
              /\ last'.ret # NoPose) =>
                 /\ traffic[n] # trafficMax(n)
                 /\ time - occupied[n][d].t >= traffic[n]
      ]_vars

\* A world of one taxi whose junction (1,0) takes in QuietSrc units a tick
\* and, in some worlds, lets out one unit more when its traffic flows: its
\* traffic then falls to 0 and rises by QuietSrc in the tick after.
DwellInit ==
    /\ InitWorld
    /\ \E quiet \in {0, QuietSrc} :
          trafficSrc = [n \in Nodes |-> IF n = 1 THEN quiet ELSE QuietSrc]
    /\ \E drain \in {0, QuietSrc + 1} :
          trafficSink = [n \in Nodes |-> IF n = 1 THEN 0 ELSE -drain]
    /\ fareGen = [n \in Nodes |-> FALSE]
    /\ runTime = MaxDwellTime
    /\ trafficCap = [n \in Nodes |-> 0]
    /\ calls = 0
    /\ dispatcher = FALSE
    /\ fleet = {1}
    /\ budget = MaxDwellCalls
    /\ fareTicks = {}
    /\ account = [t \in Taxis |-> 0]
    /\ stopAllowed = [n \in Nodes |-> TRUE]
    /\ fareSure = FALSE
    /\ gammas = 1..MaxGamma

DwellSpec == DwellInit /\ [][Next]_vars

\* What C33 says of one state: an entry of the board that has no taxi is the
\* entry of the fare that waits in the fare queue at its origin, with the
\* fare's origin, destination and call time
openEntriesAreLive ==
    \A f \in FareIds :
        (fareBoard[f].on /\ fareBoard[f].taxi < 0) =>
            /\ f \in DOMAIN fares
            /\ fareQ[fareBoard[f].origin] = f
            /\ fares[f].ended = "" /\ ~fares[f].enroute
            /\ fares[f].origin = fareBoard[f].origin
            /\ fares[f].destination = fareBoard[f].destination
            /\ fares[f].callTime = fareBoard[f].calltime

\* C33: in a world that has its dispatcher from the start, every entry of
\* the board that has no taxi is the entry of a fare in the fare queue, with
\* its origin, destination and call time, in every state; the step in which
\* a fare is abandoned takes its entry off the board, before the time advances.
C33_OpenEntriesAreLiveFares ==
    [][/\ openEntriesAreLive /\ openEntriesAreLive'
       /\ \A f \in DOMAIN fares :
             (fares[f].ended = "" /\ fares'[f].ended = "abandoned") =>
                 /\ ~fareBoard'[f].on
                 /\ fareQ'[fares[f].origin] = NoFare
                 /\ time' = time
      ]_vars

\* A fare that no taxi was allocated has been abandoned while the dispatcher
\* knew a taxi: it has left the fare queue and the board
C33_Witness ==
    \E f \in DOMAIN fares :
        /\ fares[f].ended = "abandoned" /\ fares[f].taxi = NoTaxi
        /\ dispatcherTaxis # <<>>
        /\ ~fareBoard[f].on /\ fareQ[fares[f].origin] = NoFare
        /\ phase = "nodes"

\* An entry without a taxi has bids and its fare waits in the fare queue
C33_WitnessOpen ==
    \E f \in FareIds :
        /\ fareBoard[f].on /\ fareBoard[f].taxi < 0 /\ fareBoard[f].price > 0
        /\ Len(fareBoard[f].bidders) > 0
        /\ fareQ[fareBoard[f].origin] = f

\* Taxi t is the occupant of direction d of junction n
occupies(t, n, d) == occupied[n][d].taxi = t

\* C34: a taxi is the occupant of direction d of junction n exactly when the
\* registry has (n, d) as its current pose.
C34_RegistryAgreesWithOccupancy ==
    \A t \in Taxis, n \in Nodes, d \in Dirs :
        occupies(t, n, d) <=> (taxis[t].in /\ taxis[t].here = <<n, d>>)

\* The half of C34 that a taxi entering without admission does not touch: the
\* current pose of the registry is a slot the taxi occupies
C34_PoseIsOccupied ==
    \A t \in Taxis :
        (taxis[t].in /\ taxis[t].here # NoPose) =>
            occupies(t, taxis[t].here[1], taxis[t].here[2])

\* What holds of C34: the registry's current pose changes only to the admission
\* the taxi held, when it occupies a slot of the junction that admission names,
\* or to none when the taxi is added
C34_PoseSetFromAdmission ==
    [][\A t \in Taxis :
          taxis'[t].here # taxis[t].here =>
              \/ /\ taxis'[t].here = taxis[t].adm
                 /\ last'.occupy /\ last'.ook /\ last'.otaxi = t
                 /\ last'.onode = taxis[t].adm[1]
              \/ taxis'[t].here = NoPose /\ last'.op = "addTaxi"
      ]_vars

\* C34's case: a taxi occupies a junction and the registry has its pose
C34_Witness ==
    \E t \in Taxis :
        /\ taxis[t].here # NoPose
        /\ occupies(t, taxis[t].here[1], taxis[t].here[2])

\* The sum of f over the junctions in S
RECURSIVE sumOver(_, _)
sumOver(f, S) ==
    IF S = {} THEN 0
    ELSE LET n == CHOOSE m \in S : TRUE IN f[n] + sumOver(f, S \ {n})
\* All traffic of the world: in the junctions and queued for them
totalTraffic(tr, q) == sumOver(tr, Nodes) + sumOver(q, Nodes)
\* The units the step queues, and the junctions next to n
queuedNow == sumOver(trafficQ', Nodes) - sumOver(trafficQ, Nodes)
neighbourNodes(n) == {neighbours(n, d) : d \in Dirs} \ {NoNode}

\* C35: traffic is conserved. The clockTick of junction n queues each unit it
\* passes on for one neighbour, at most one per neighbour, and the total of
\* junction volumes and queued traffic changes by the outflow of n for each
\* unit passed on and by the inflow of n, less what the ceiling cuts; the
\* flush moves into a junction what it accepts and keeps the rest queued, so
\* the total is unchanged and no queue count is negative; no other step
\* changes the total.
C35_TrafficConserved ==
    [][/\ \A n \in Nodes : trafficQ[n] >= 0 /\ trafficQ'[n] >= 0
       /\ \A n \in Nodes : isTick(n) =>
             /\ \A m \in Nodes : trafficQ'[m] - trafficQ[m] \in
                                    (IF m \in neighbourNodes(n) THEN {0, 1} ELSE {0})
             /\ \A m \in Nodes \ {n} : traffic'[m] = traffic[m]
             /\ traffic[n] - traffic'[n] >= queuedNow * (1 - trafficSink[n]) - trafficSrc[n]
             /\ \/ totalTraffic(traffic', trafficQ') - totalTraffic(traffic, trafficQ)
                      = queuedNow * trafficSink[n] + trafficSrc[n]
                \/ /\ traffic'[n] = trafficMax(n)
                   /\ totalTraffic(traffic', trafficQ') - totalTraffic(traffic, trafficQ)
                         < queuedNow * trafficSink[n] + trafficSrc[n]
       /\ phase = "traffic" =>
             \A n \in Nodes :
                 /\ traffic'[n] + trafficQ'[n] = traffic[n] + trafficQ[n]
                 /\ traffic'[n] >= traffic[n]
                 /\ trafficQ'[n] > 0 => traffic'[n] = trafficMax(n)
       /\ (phase # "traffic" /\ \A n \in Nodes : ~isTick(n)) =>
             totalTraffic(traffic', trafficQ') = totalTraffic(traffic, trafficQ)
      ]_vars

\* C35 witness: a junction was full when the flush came, and the unit queued
\* for it is still queued in the next tick
C35_Witness ==
    \E n \in Nodes :
        /\ time > 0 /\ phase = "nodes" /\ nextNode = 1
        /\ trafficQ[n] > 0
        /\ traffic[n] = trafficMax(n)

\* C35 witness: a junction has passed a unit on and drained its outflow, and
\* the unit is queued for its neighbour
C35_WitnessDrain ==
    /\ phase = "taxis"
    /\ trafficSink[1] < 0
    /\ trafficQ[2] = 1
    /\ traffic[1] < 0

\* A world without traffic, with a dispatcher, a taxi and fares at (0,0): the
\* travel time to (1,0) is so short that the dispatcher's price is more than
\* ten times it.
RejectInit ==
    /\ InitWorld
    /\ trafficSrc = [n \in Nodes |-> 0]
    /\ trafficSink = [n \in Nodes |-> 0]
    /\ fareGen = [n \in Nodes |-> n = 1]
    /\ trafficCap = [n \in Nodes |-> 0]
    /\ calls = 0
    /\ dispatcher = TRUE
    /\ stopAllowed = [n \in Nodes |-> TRUE]
    /\ runTime = MaxRejectTime /\ budget = MaxRejectCalls
    /\ fareTicks = 0..MaxRejectTime
    /\ fleet = {1} /\ account = [t \in Taxis |-> 0]
    /\ fareSure = FALSE /\ gammas = 1..MaxGamma
RejectSpec == RejectInit /\ [][WaitNext]_vars

\* Fare f has rejected its price: setPrice has set its maximum wait to 0
rejectedPrice(f) == fares[f].price > 0 /\ fares[f].waitTime = 0
\* Fare f has no taxi, on the board or in the world, and has not been picked up
neverTaken(f) ==
    /\ fares[f].taxi = NoTaxi /\ ~fares[f].enroute /\ fares[f].ended # "completed"
    /\ fareBoard[f].on => fareBoard[f].taxi < 0

\* C36: a fare that has rejected its price leaves in the next clockTick of its
\* origin, and is never allocated to a taxi nor picked up, whatever the taxis
\* bid after the price was broadcast.
C36_RejectedFareRemoved ==
    [][/\ \A n \in Nodes :
             (isTick(n) /\ fare[n] # NoFare /\ rejectedPrice(fare[n])) =>
                 fareAbandoned(n) /\ ~fareBoard'[fare[n]].on
       /\ \A f \in DOMAIN fares :
             rejectedPrice(f) => neverTaken(f) /\ neverTaken(f)'
      ]_vars

\* The same, for the clockTicks in which Dispatcher.cancelFare does not raise
C36_RejectedRemovedUnlessRaised ==
    [][/\ \A n \in Nodes :
             (isTick(n) /\ fare[n] # NoFare /\ rejectedPrice(fare[n])
                        /\ ~cancelRaises(fare[n])) =>
                 fareAbandoned(n) /\ ~fareBoard'[fare[n]].on
       /\ \A f \in DOMAIN fares :
             (rejectedPrice(f) /\ fares[f].ended = "" /\ ~crashed) =>
                 \/ phase = "traffic"
                 \/ phase = "nodes" /\ nextNode <= fares[f].origin
       /\ \A f \in DOMAIN fares :
             rejectedPrice(f) => neverTaken(f) /\ neverTaken(f)'
      ]_vars

\* C36's case: a fare that rejected its price has left, and a taxi the
\* dispatcher knows has bid for its origin since
C36_Witness ==
    \E f \in DOMAIN fares :
        /\ rejectedPrice(f) /\ fares[f].ended = "abandoned"
        /\ last.op = "fareBid" /\ last.node = fares[f].origin /\ last.taxi \in Taxis
        /\ knownTaxi(dispatcherTaxis, last.taxi)

\* The step is a dropoffFare at junction n by the occupant of direction d,
\* which carries a fare that is enroute to n
dropsAtDestination(n, d) ==
    /\ isCall /\ last'.op = "dropoffFare" /\ last'.node = n /\ last'.dir = d
    /\ occupied[n][d].taxi # NoTaxi
    /\ carrying[occupied[n][d].taxi] # NoFare
    /\ fares[carrying[occupied[n][d].taxi]].enroute
    /\ fares[carrying[occupied[n][d].taxi]].taxi = occupied[n][d].taxi
    /\ fares[carrying[occupied[n][d].taxi]].destination = n

\* C37: a taxi that carries a fare and occupies the fare's destination
\* completes it by dropoffFare at any tick that is not earlier than the
\* timestamp of its occupancy.
C37_DropoffAtOrAfterArrival ==
    [][\A n \in Nodes, d \in Dirs :
          (dropsAtDestination(n, d) /\ time >= occupied[n][d].t) => last'.done
      ]_vars

\* What holds of C37: the drop-off succeeds exactly at the ticks that are not
\* later than the timestamp of the occupancy
C37_DropoffUntilArrival ==
    [][\A n \in Nodes, d \in Dirs :
          dropsAtDestination(n, d) => (last'.done <=> time <= occupied[n][d].t)
      ]_vars

\* A drop-off at the destination was refused after the taxi's arrival
C37_WitnessRefused ==
    /\ last.op = "dropoffFare" /\ ~last.done
    /\ last.taxi # NoTaxi /\ carrying[last.taxi] = last.fare
    /\ fares[last.fare].enroute /\ fares[last.fare].destination = last.node
    /\ occupied[last.node][last.dir].taxi = last.taxi
    /\ time > occupied[last.node][last.dir].t

\* C38: every clockTick returns; no junction's clockTick stays in the loop of
\* insertFare that draws the destination, also in a world where taxis may
\* stop at one junction only.
C38_EveryTickReturns == phase # "insertFare"

\* What holds of C38: where taxis may stop at two junctions or more, every
\* clockTick returns
C38_ReturnsWhereTwoCanStop ==
    Cardinality({n \in Nodes : canStop(n)}) >= 2 => phase # "insertFare"

\* C38's case: a world where taxis may stop at (0,0) only has run a tick, in
\* which the generator of (0,0) did not fire
C38_Witness ==
    /\ time > 0
    /\ {n \in Nodes : canStop(n)} = {1}
    /\ fareGen[1]

\* Two taxis come into the busy world, bid from the second tick on and go off
\* duty. The fare_probability of (0,0) is sure to return True at tick 0, so
\* every bid comes in a later tick than the fare.
ShiftInit ==
    /\ BusyWorld /\ runTime = MaxShiftTime /\ budget = MaxShiftCalls /\ fareTicks = {0}
    /\ fleet = Taxis /\ account = [t \in Taxis |-> 0]
    /\ fareSure = TRUE /\ gammas = {1}

ShiftCall ==
    \/ \E t \in Taxis, n \in Nodes : AddTaxi(t, n)
    \/ \E t \in Taxis : Occupy(t)
    \/ \E t \in Taxis, origin \in Nodes : time > 0 /\ Bid(t, origin)
    \/ \E t \in Taxis : GoOffDuty(t)

ShiftNext == ShiftCall \/ Tick

ShiftSpec == ShiftInit /\ [][ShiftNext]_vars

\* The entries a dispatcher pass finds priced, without a taxi and with a bid,
\* and the taxis it finds eligible that are on duty
awaiting == {f \in FareIds : needsTaxi(f)}
eligibleOnDuty == {t \in eligible : onDuty[t]}
adviceMsg(f) == message("FARE_ADVICE", fareBoard[f].origin, fareBoard'[f].price)

\* C39: no dispatcher pass both prices and allocates a fare. A fare is priced,
\* and FARE_ADVICE sent to the taxis on duty, in the dispatcher pass of the tick
\* in which it appeared; a fare that a pass finds priced, unallocated and with
\* a bid is allocated in that pass, when a taxi is eligible.
C39_BidAllocatedSameTick ==
    [][phase = "dispatcher" =>
          \A f \in FareIds :
              fareBoard[f].on =>
                  /\ ~(fareBoard'[f].price # fareBoard[f].price
                          /\ fareBoard'[f].taxi # fareBoard[f].taxi)
                  /\ fareBoard[f].price = 0 =>
                        /\ fares[f].callTime = time
                        /\ fareBoard'[f].price # 0
                        /\ \A t \in Taxis :
                              (taxis[t].in /\ onDuty[t]) => adviceMsg(f) \in inbox'[t]
                  /\ (f \in awaiting /\ eligibleOnDuty # {}) =>
                        /\ fareBoard'[f].taxi >= 0
                        /\ fares'[f].taxi # NoTaxi
                        /\ allocMsg(fareBoard[f].origin) \in inbox'[fares'[f].taxi]
      ]_vars

\* What holds of C39: the same, where the pass allocates the fare on the board
\* and the Network assigns it when the taxi chosen is on duty
C39_BidMarkedSameTick ==
    [][phase = "dispatcher" =>
          \A f \in FareIds :
              fareBoard[f].on =>
                  /\ ~(fareBoard'[f].price # fareBoard[f].price
                          /\ fareBoard'[f].taxi # fareBoard[f].taxi)
                  /\ fareBoard[f].price = 0 =>
                        /\ fares[f].callTime = time
                        /\ fareBoard'[f].price # 0
                        /\ \A t \in Taxis :
                              (taxis[t].in /\ onDuty[t]) => adviceMsg(f) \in inbox'[t]
                  /\ (f \in awaiting /\ eligible # {}) =>
                        /\ fareBoard'[f].taxi >= 0
                        /\ onDuty[taxiAt(dispatcherTaxis, fareBoard'[f].taxi)] =>
                              /\ fares'[f].taxi = taxiAt(dispatcherTaxis, fareBoard'[f].taxi)
                              /\ allocMsg(fareBoard[f].origin) \in inbox'[fares'[f].taxi]
      ]_vars

\* C39's case: a taxi bid at tick 1 for the fare priced at tick 0, and the fare
\* was allocated in the dispatcher pass of tick 1
C39_Witness ==
    /\ time = 1 /\ phase = "traffic"
    /\ \E f \in FareIds :
          /\ fareBoard[f].on /\ fares[f].callTime = 0
          /\ fareBoard[f].taxi >= 0 /\ Len(fareBoard[f].bidders) > 0
          /\ fares[f].taxi = taxiAt(dispatcherTaxis, fareBoard[f].taxi)
          /\ allocMsg(fareBoard[f].origin) \in inbox[fares[f].taxi]

\* C40: a junction holds a fare exactly when the fare queue has an entry for
\* the junction, and the entry is that fare, which waits there uncollected; so
\* a junction that has no fare, the only one to call insertFare, never finds
\* a fare waiting in the queue.
C40_FareQueueAgrees ==
    \A n \in Nodes :
        /\ fare[n] = fareQ[n]
        /\ fare[n] # NoFare =>
              /\ fares[fare[n]].origin = n
              /\ ~fares[fare[n]].enroute
              /\ fares[fare[n]].ended = ""

\* C40 witness: a fare has been picked up; its junction holds no fare and the
\* fare queue has no entry for the junction
C40_Witness ==
    \E f \in DOMAIN fares :
        /\ fares[f].enroute
        /\ fare[fares[f].origin] = NoFare
        /\ fareQ[fares[f].origin] = NoFare

\* C40 witness: a fare has left its junction, and insertFare has put the
\* next fare there
C40_WitnessNextFare ==
    /\ Len(fares) = 2
    /\ fares[1].ended = "abandoned"
    /\ fare[1] = 2 /\ fareQ[1] = 2

====
